---- MODULE Spec2Model ----
(***************************************************************************)
(* A model of SaveGameManager (src/SaveGameManager.cpp, .h): the XOR codec *)
(* of the save file, the in-memory JSON document with its guarded getters  *)
(* and setters, the tier classifier, and the Load / Write lifecycle with   *)
(* its backup copy.                                                        *)
(*                                                                         *)
(* Text is modelled as it is in the program: a sequence of bytes 0..255.   *)
(* A JSON string is the sequence of its bytes, so std::map's key order is  *)
(* the lexicographic byte order, and dump / parse / XOR work on real text. *)
(***************************************************************************)
EXTENDS Integers, Sequences, FiniteSets, TLC

(***************************************************************************)
(* Bytes and the names the program uses (ASCII).                           *)
(***************************************************************************)
\* "GameData"  (SaveGameManager.h: const std::string XOR_KEY)
XOR_KEY == <<71, 97, 109, 101, 68, 97, 116, 97>>
\* "PlayerInfo"
K_PlayerInfo == <<80, 108, 97, 121, 101, 114, 73, 110, 102, 111>>
\* "m_Gold"
K_Gold == <<109, 95, 71, 111, 108, 100>>
\* "m_Bei"
K_Bei == <<109, 95, 66, 101, 105>>
\* "m_ChefFlame"
K_ChefFlame == <<109, 95, 67, 104, 101, 102, 70, 108, 97, 109, 101>>
\* "SNSInfo"
K_SNSInfo == <<83, 78, 83, 73, 110, 102, 111>>
\* "m_Follow_Count"
K_FollowCount == <<109, 95, 70, 111, 108, 108, 111, 119, 95, 67, 111, 117, 110, 116>>

SAVE_MAX_CURRENCY == 999999999

\* The names and strings of the bulk mutators.
\* "Ingredients"
K_Ingredients == <<73, 110, 103, 114, 101, 100, 105, 101, 110, 116, 115>>
\* "ingredientsID"
K_ingredientsID == <<105, 110, 103, 114, 101, 100, 105, 101, 110, 116, 115, 73, 68>>
\* "count"
K_count == <<99, 111, 117, 110, 116>>
\* "InventoryItemSlot"
K_InventoryItemSlot == <<73, 110, 118, 101, 110, 116, 111, 114, 121, 73, 116, 101, 109, 83, 108, 111, 116>>
\* "itemID"
K_itemID == <<105, 116, 101, 109, 73, 68>>
\* "totalCount"
K_totalCount == <<116, 111, 116, 97, 108, 67, 111, 117, 110, 116>>
\* "Staff"
K_Staff == <<83, 116, 97, 102, 102>>
\* "name"
K_name == <<110, 97, 109, 101>>
\* "level"
K_level == <<108, 101, 118, 101, 108>>
\* "Staff_Dave"
Staff_Dave == <<83, 116, 97, 102, 102, 95, 68, 97, 118, 101>>
\* "parentID"
K_parentID == <<112, 97, 114, 101, 110, 116, 73, 68>>
\* "branchCount"
K_branchCount == <<98, 114, 97, 110, 99, 104, 67, 111, 117, 110, 116>>
\* "lastGainTime"
K_lastGainTime == <<108, 97, 115, 116, 71, 97, 105, 110, 84, 105, 109, 101>>
\* "lastGainGameTime"
K_lastGainGameTime == <<108, 97, 115, 116, 71, 97, 105, 110, 71, 97, 109, 101, 84, 105, 109, 101>>
\* "isNew"
K_isNew == <<105, 115, 78, 101, 119>>
\* "placeTagMask"
K_placeTagMask == <<112, 108, 97, 99, 101, 84, 97, 103, 77, 97, 115, 107>>
\* "04/01/2025 12:34:56"
Default_lastGainTime == <<48, 52, 47, 48, 49, 47, 50, 48, 50, 53, 32, 49, 50, 58, 51, 52, 58, 53, 54>>
\* "10/03/2022 08:30:52"
Default_lastGainGameTime == <<49, 48, 47, 48, 51, 47, 50, 48, 50, 50, 32, 48, 56, 58, 51, 48, 58, 53, 50>>

(***************************************************************************)
(* nlohmann::json values.  A value is a pair <<kind, payload>>: the type  *)
(* tag first, so that two values of different types are simply unequal.     *)
(* An object's payload is the sequence of its <<key, value>> pairs in      *)
(* std::map order (keys strictly increasing), so two equal objects are     *)
(* equal sequences and begin() is the first pair.                          *)
(***************************************************************************)
JNull == <<"null", <<>>>>
JBool(b) == <<"bool", b>>
JInt(n) == <<"int", n>>
JStr(s) == <<"str", s>>
JArr(items) == <<"arr", items>>
JObj(pairs) == <<"obj", pairs>>

Kind(j) == j[1]
Val(j) == j[2]

is_object(j) == Kind(j) = "obj"
is_number_integer(j) == Kind(j) = "int"
is_boolean(j) == Kind(j) = "bool"
is_string(j) == Kind(j) = "str"

\* std::string operator< : lexicographic on bytes, a proper prefix is smaller.
RECURSIVE StrLess(_, _)
StrLess(a, b) ==
    IF b = <<>> THEN FALSE
    ELSE IF a = <<>> THEN TRUE
    ELSE IF Head(a) # Head(b) THEN Head(a) < Head(b)
    ELSE StrLess(Tail(a), Tail(b))

\* Index of key in the pair sequence, 0 when absent.
RECURSIVE PairIndex(_, _, _)
PairIndex(pairs, key, i) ==
    IF i > Len(pairs) THEN 0
    ELSE IF pairs[i][1] = key THEN i
    ELSE PairIndex(pairs, key, i + 1)

\* json::contains(key): false for anything that is not an object.
contains(j, key) == is_object(j) /\ PairIndex(Val(j), key, 1) # 0

\* json::operator[](key) read on an object that holds the key.
at(j, key) == Val(j)[PairIndex(Val(j), key, 1)][2]

\* Number of pairs whose key sorts before key.
RECURSIVE CountLess(_, _, _)
CountLess(pairs, key, i) ==
    IF i > Len(pairs) THEN 0
    ELSE (IF StrLess(pairs[i][1], key) THEN 1 ELSE 0) + CountLess(pairs, key, i + 1)

\* std::map insert-or-assign: obj[key] = val, keeping the key order.
MapSet(pairs, key, val) ==
    LET i == PairIndex(pairs, key, 1) IN
    IF i # 0 THEN [pairs EXCEPT ![i] = <<key, val>>]
    ELSE LET n == CountLess(pairs, key, 1) IN
         SubSeq(pairs, 1, n) \o << <<key, val>> >> \o SubSeq(pairs, n + 1, Len(pairs))

\* j[key] = val on an object j.
ObjSet(j, key, val) == JObj(MapSet(Val(j), key, val))

\* j[section][field] = val, for an object j holding an object under section.
SetField(j, section, field, val) == ObjSet(j, section, ObjSet(at(j, section), field, val))

(***************************************************************************)
(* json::dump(): the compact serialization (no indent, no spaces).         *)
(* Strings hold printable ASCII without quote or backslash, which dump     *)
(* copies between quotes unchanged.                                        *)
(***************************************************************************)
\* std::to_string / the integer serializer, for n >= 0.
RECURSIVE Digits(_)
Digits(n) == IF n < 10 THEN <<48 + n>> ELSE Digits(n \div 10) \o <<48 + (n % 10)>>

IntText(n) == IF n < 0 THEN <<45>> \o Digits(0 - n) ELSE Digits(n)

RECURSIVE Dump(_), DumpItems(_, _), DumpPairs(_, _)
Dump(j) ==
    CASE Kind(j) = "null" -> <<110, 117, 108, 108>>
      [] Kind(j) = "bool" -> (IF Val(j) THEN <<116, 114, 117, 101>> ELSE <<102, 97, 108, 115, 101>>)
      [] Kind(j) = "int" -> IntText(Val(j))
      [] Kind(j) = "str" -> <<34>> \o Val(j) \o <<34>>
      [] Kind(j) = "arr" -> <<91>> \o DumpItems(Val(j), 1) \o <<93>>
      [] Kind(j) = "obj" -> <<123>> \o DumpPairs(Val(j), 1) \o <<125>>

DumpItems(items, i) ==
    IF i > Len(items) THEN <<>>
    ELSE (IF i > 1 THEN <<44>> ELSE <<>>) \o Dump(items[i]) \o DumpItems(items, i + 1)

DumpPairs(pairs, i) ==
    IF i > Len(pairs) THEN <<>>
    ELSE (IF i > 1 THEN <<44>> ELSE <<>>)
         \o <<34>> \o pairs[i][1] \o <<34, 58>> \o Dump(pairs[i][2])
         \o DumpPairs(pairs, i + 1)

(***************************************************************************)
(* json::parse(): a recursive-descent parser of the text.  It accepts      *)
(* objects, arrays, strings of printable ASCII without escapes, integers,  *)
(* true / false / null and whitespace between tokens; a repeated key keeps *)
(* its last value; anything after the value is an error.  Escapes, bytes   *)
(* above 127 and fractions are outside the texts considered here and are   *)
(* reported as errors.  A result is [ok, v, pos]: pos is the next index.   *)
(***************************************************************************)
ParseFail == [ok |-> FALSE, v |-> JNull, pos |-> 0]
ParseOk(val, next) == [ok |-> TRUE, v |-> val, pos |-> next]

\* The byte at index i, -1 at the end of the input.
Ch(s, i) == IF i >= 1 /\ i <= Len(s) THEN s[i] ELSE -1

IsDigit(c) == c >= 48 /\ c <= 57

RECURSIVE SkipWs(_, _)
SkipWs(s, i) == IF Ch(s, i) \in {32, 9, 10, 13} THEN SkipWs(s, i + 1) ELSE i

\* Index of the closing quote of the string whose first byte is at i; 0 on error.
RECURSIVE ScanString(_, _)
ScanString(s, i) ==
    LET c == Ch(s, i) IN
    IF c = 34 THEN i
    ELSE IF c < 32 \/ c = 92 \/ c > 127 THEN 0
    ELSE ScanString(s, i + 1)

\* s[i] is the opening quote.
ParseString(s, i) ==
    LET j == ScanString(s, i + 1) IN
    IF j = 0 THEN ParseFail ELSE ParseOk(SubSeq(s, i + 1, j - 1), j + 1)

RECURSIVE ScanDigits(_, _, _)
ScanDigits(s, i, acc) ==
    IF IsDigit(Ch(s, i)) THEN ScanDigits(s, i + 1, (acc * 10) + (Ch(s, i) - 48))
    ELSE [v |-> acc, pos |-> i]

\* s[i] is '-' or a digit.
ParseNumber(s, i) ==
    LET neg == Ch(s, i) = 45
        d == IF neg THEN i + 1 ELSE i
        n == IF Ch(s, d) = 48 THEN [v |-> 0, pos |-> d + 1] ELSE ScanDigits(s, d, 0)
    IN  IF ~IsDigit(Ch(s, d)) THEN ParseFail
        ELSE IF Ch(s, n.pos) \in {46, 69, 101} THEN ParseFail
        ELSE ParseOk(JInt(IF neg THEN 0 - n.v ELSE n.v), n.pos)

ParseLiteral(s, i, text, val) ==
    IF i + Len(text) - 1 <= Len(s) /\ SubSeq(s, i, i + Len(text) - 1) = text
    THEN ParseOk(val, i + Len(text))
    ELSE ParseFail

RECURSIVE ParseValue(_, _), ParseMembers(_, _, _), ParseItems(_, _, _)
ParseValue(s, i) ==
    LET j == SkipWs(s, i)
        c == Ch(s, j)
    IN  CASE c = 123 ->
               (LET m == SkipWs(s, j + 1) IN
                IF Ch(s, m) = 125 THEN ParseOk(JObj(<<>>), m + 1)
                ELSE ParseMembers(s, m, <<>>))
          [] c = 91 ->
               (LET m == SkipWs(s, j + 1) IN
                IF Ch(s, m) = 93 THEN ParseOk(JArr(<<>>), m + 1)
                ELSE ParseItems(s, m, <<>>))
          [] c = 34 ->
               (LET r == ParseString(s, j) IN
                IF r.ok THEN ParseOk(JStr(r.v), r.pos) ELSE ParseFail)
          [] c = 45 \/ IsDigit(c) -> ParseNumber(s, j)
          [] c = 116 -> ParseLiteral(s, j, <<116, 114, 117, 101>>, JBool(TRUE))
          [] c = 102 -> ParseLiteral(s, j, <<102, 97, 108, 115, 101>>, JBool(FALSE))
          [] c = 110 -> ParseLiteral(s, j, <<110, 117, 108, 108>>, JNull)
          [] OTHER -> ParseFail

\* The members of an object from index i (a key is expected), acc the pairs so far.
ParseMembers(s, i, acc) ==
    LET j == SkipWs(s, i)
        key == IF Ch(s, j) = 34 THEN ParseString(s, j) ELSE ParseFail
        c == SkipWs(s, key.pos)
        val == IF key.ok /\ Ch(s, c) = 58 THEN ParseValue(s, c + 1) ELSE ParseFail
        e == SkipWs(s, val.pos)
    IN  IF ~val.ok THEN ParseFail
        ELSE IF Ch(s, e) = 44 THEN ParseMembers(s, e + 1, MapSet(acc, key.v, val.v))
        ELSE IF Ch(s, e) = 125 THEN ParseOk(JObj(MapSet(acc, key.v, val.v)), e + 1)
        ELSE ParseFail

\* The items of an array from index i (a value is expected), acc the items so far.
ParseItems(s, i, acc) ==
    LET val == ParseValue(s, i)
        e == SkipWs(s, val.pos)
    IN  IF ~val.ok THEN ParseFail
        ELSE IF Ch(s, e) = 44 THEN ParseItems(s, e + 1, Append(acc, val.v))
        ELSE IF Ch(s, e) = 93 THEN ParseOk(JArr(Append(acc, val.v)), e + 1)
        ELSE ParseFail

\* json::parse(text): [ok, v]; ok = FALSE stands for the parse_error thrown.
Parse(s) ==
    LET r == ParseValue(s, 1) IN
    IF r.ok /\ SkipWs(s, r.pos) > Len(s) THEN [ok |-> TRUE, v |-> r.v]
    ELSE [ok |-> FALSE, v |-> JNull]

(***************************************************************************)
(* The codec: result[i] = data[i] ^ key[i % key_len] (0-based i).          *)
(***************************************************************************)
\* a ^ b on two bytes.
RECURSIVE XorByte(_, _)
XorByte(a, b) ==
    IF a = 0 /\ b = 0 THEN 0
    ELSE (((a % 2) + (b % 2)) % 2) + (2 * XorByte(a \div 2, b \div 2))

\* XorByte tabulated, for every byte against every byte of the key.
SeqRange(q) == {q[i] : i \in 1..Len(q)}
XorTable == [a \in 0..255 |-> [b \in SeqRange(XOR_KEY) |-> XorByte(a, b)]]
Xor(a, b) == IF b \in SeqRange(XOR_KEY) THEN XorTable[a][b] ELSE XorByte(a, b)

\* The codec with the key byte added instead of XORed.
XORDecryptEncryptAdding(data, key) ==
    LET key_len == Len(key) IN
    [i \in 1..Len(data) |-> (data[i] + key[((i - 1) % key_len) + 1]) % 256]

XORDecryptEncrypt(data, key) ==
    LET key_len == Len(key) IN
    [i \in 1..Len(data) |-> Xor(data[i], key[((i - 1) % key_len) + 1])]

(***************************************************************************)
(* The tier classifier.                                                    *)
(***************************************************************************)
\* The classifier with every capacity sent to the top tier.
GetDesiredMaxCountForTierAlways(item_db_max_count) == 6666

\* The classifier with the top tier starting above 9999.
GetDesiredMaxCountForTierAbove(item_db_max_count) ==
    IF item_db_max_count = 1 THEN 0
    ELSE IF item_db_max_count = 99 THEN 66
    ELSE IF item_db_max_count = 999 THEN 666
    ELSE IF item_db_max_count > 9999 THEN 6666
    ELSE 0

GetDesiredMaxCountForTier(item_db_max_count) ==
    IF item_db_max_count = 1 THEN 0
    ELSE IF item_db_max_count = 99 THEN 66
    ELSE IF item_db_max_count = 999 THEN 666
    ELSE IF item_db_max_count >= 9999 THEN 6666
    ELSE 0

(***************************************************************************)
(* Bounds of the model.                                                    *)
(***************************************************************************)
\* Calls of the engine's operations in one run.
MaxCalls == 3
\* Codec inputs are the byte sequences over CodecBytes up to this length.
MaxCodecLen == 9
\* Classifier inputs run from -MaxNegative to MaxCapacity.
MaxNegative == 2
MaxCapacity == 10001

(***************************************************************************)
(* The files.  A path is [dir, name, stamp]: the directory's components,   *)
(* the file's stem, and the timestamp appended to the stem (0: none); the  *)
(* extension is the same everywhere.  The empty string is EmptyPath.       *)
(***************************************************************************)
EmptyPath == [dir |-> <<>>, name |-> "", stamp |-> 0]
SaveDir == <<"SteamSData">>
SavePath(name) == [dir |-> SaveDir, name |-> name, stamp |-> 0]
\* <temp>/DaveSaveEd_Backups
TempBackupDir == <<"Temp", "DaveSaveEd_Backups">>

\* A save with both sections; m_Bei is above the maximum the editor stores.
\* {"PlayerInfo":{"m_Bei":1000000000,"m_ChefFlame":7,"m_Gold":100},"SNSInfo":{"m_Follow_Count":3}}
TextFull == <<123, 34, 80, 108, 97, 121, 101, 114, 73, 110, 102, 111, 34, 58, 123, 34, 109, 95, 66, 101, 105, 34, 58, 49, 48, 48, 48, 48, 48, 48, 48, 48, 48, 44, 34, 109, 95, 67, 104, 101, 102, 70, 108, 97, 109, 101, 34, 58, 55, 44, 34, 109, 95, 71, 111, 108, 100, 34, 58, 49, 48, 48, 125, 44, 34, 83, 78, 83, 73, 110, 102, 111, 34, 58, 123, 34, 109, 95, 70, 111, 108, 108, 111, 119, 95, 67, 111, 117, 110, 116, 34, 58, 51, 125, 125>>
\* PlayerInfo and SNSInfo present but not maps, with whitespace.
\* { "PlayerInfo" : true , "SNSInfo" : 3 }
TextNoMap == <<123, 32, 34, 80, 108, 97, 121, 101, 114, 73, 110, 102, 111, 34, 32, 58, 32, 116, 114, 117, 101, 32, 44, 32, 34, 83, 78, 83, 73, 110, 102, 111, 34, 32, 58, 32, 51, 32, 125>>
\* No PlayerInfo; SNSInfo is a map whose m_Follow_Count is a string.
\* {"SNSInfo":{"m_Follow_Count":"9"}}
TextNoSection == <<123, 34, 83, 78, 83, 73, 110, 102, 111, 34, 58, 123, 34, 109, 95, 70, 111, 108, 108, 111, 119, 95, 67, 111, 117, 110, 116, 34, 58, 34, 57, 34, 125, 125>>

\* The save files a user can pick: three that the game wrote (XOR-encoded
\* JSON), one that holds plain JSON text (it does not decode to JSON), and a
\* name with no file behind it.
FullSav == SavePath("GameSave_00_GD")
NoMapSav == SavePath("GameSave_01_GD")
NoSectionSav == SavePath("GameSave_02_GD")
JunkSav == SavePath("GameSave_03_GD")
GoneSav == SavePath("GameSave_04_GD")
SavePaths == {FullSav, NoMapSav, NoSectionSav, JunkSav, GoneSav}

InitialDisk ==
    [p \in {FullSav, NoMapSav, NoSectionSav, JunkSav} |->
        CASE p = FullSav -> XORDecryptEncrypt(TextFull, XOR_KEY)
          [] p = NoMapSav -> XORDecryptEncrypt(TextNoMap, XOR_KEY)
          [] p = NoSectionSav -> XORDecryptEncrypt(TextNoSection, XOR_KEY)
          [] p = JunkSav -> TextNoSection]

\* Saves with the collections of the bulk mutators.  The first has entries
\* of every kind the loops tell apart: found with a target, found with
\* target 0, not found, without an identifier, with an identifier that is
\* not an integer.  Its first ingredient has one gain time that is a string
\* and one that is not.
\* {"Ingredients":{"3":{"count":4,"ingredientsID":3,"lastGainGameTime":7,"lastGainTime":"T"},"5":{"count":2,"ingredientsID":5},"8":{"count":1,"ingredientsID":8},"x":{"count":1}},"InventoryItemSlot":{"1":{"itemID":5,"totalCount":2},"2":{"itemID":"5","totalCount":1},"3":{"itemID":3,"totalCount":1}},"Staff":{"1":{"level":1,"name":"Staff_Dave"},"2":{"level":1,"name":"Staff_Bob"}}}
TextBulk == <<123, 34, 73, 110, 103, 114, 101, 100, 105, 101, 110, 116, 115, 34, 58, 123, 34, 51, 34, 58, 123, 34, 99, 111, 117, 110, 116, 34, 58, 52, 44, 34, 105, 110, 103, 114, 101, 100, 105, 101, 110, 116, 115, 73, 68, 34, 58, 51, 44, 34, 108, 97, 115, 116, 71, 97, 105, 110, 71, 97, 109, 101, 84, 105, 109, 101, 34, 58, 55, 44, 34, 108, 97, 115, 116, 71, 97, 105, 110, 84, 105, 109, 101, 34, 58, 34, 84, 34, 125, 44, 34, 53, 34, 58, 123, 34, 99, 111, 117, 110, 116, 34, 58, 50, 44, 34, 105, 110, 103, 114, 101, 100, 105, 101, 110, 116, 115, 73, 68, 34, 58, 53, 125, 44, 34, 56, 34, 58, 123, 34, 99, 111, 117, 110, 116, 34, 58, 49, 44, 34, 105, 110, 103, 114, 101, 100, 105, 101, 110, 116, 115, 73, 68, 34, 58, 56, 125, 44, 34, 120, 34, 58, 123, 34, 99, 111, 117, 110, 116, 34, 58, 49, 125, 125, 44, 34, 73, 110, 118, 101, 110, 116, 111, 114, 121, 73, 116, 101, 109, 83, 108, 111, 116, 34, 58, 123, 34, 49, 34, 58, 123, 34, 105, 116, 101, 109, 73, 68, 34, 58, 53, 44, 34, 116, 111, 116, 97, 108, 67, 111, 117, 110, 116, 34, 58, 50, 125, 44, 34, 50, 34, 58, 123, 34, 105, 116, 101, 109, 73, 68, 34, 58, 34, 53, 34, 44, 34, 116, 111, 116, 97, 108, 67, 111, 117, 110, 116, 34, 58, 49, 125, 44, 34, 51, 34, 58, 123, 34, 105, 116, 101, 109, 73, 68, 34, 58, 51, 44, 34, 116, 111, 116, 97, 108, 67, 111, 117, 110, 116, 34, 58, 49, 125, 125, 44, 34, 83, 116, 97, 102, 102, 34, 58, 123, 34, 49, 34, 58, 123, 34, 108, 101, 118, 101, 108, 34, 58, 49, 44, 34, 110, 97, 109, 101, 34, 58, 34, 83, 116, 97, 102, 102, 95, 68, 97, 118, 101, 34, 125, 44, 34, 50, 34, 58, 123, 34, 108, 101, 118, 101, 108, 34, 58, 49, 44, 34, 110, 97, 109, 101, 34, 58, 34, 83, 116, 97, 102, 102, 95, 66, 111, 98, 34, 125, 125, 125>>
\* A save with an ingredient that is not a map and a staff member without a name.
\* {"Ingredients":{"10":{"count":1},"5":3},"Staff":[{"level":1,"name":"Staff_Bob"},{"level":1},{"level":2,"name":"Staff_Amy"}]}
TextMalformed == <<123, 34, 73, 110, 103, 114, 101, 100, 105, 101, 110, 116, 115, 34, 58, 123, 34, 49, 48, 34, 58, 123, 34, 99, 111, 117, 110, 116, 34, 58, 49, 125, 44, 34, 53, 34, 58, 51, 125, 44, 34, 83, 116, 97, 102, 102, 34, 58, 91, 123, 34, 108, 101, 118, 101, 108, 34, 58, 49, 44, 34, 110, 97, 109, 101, 34, 58, 34, 83, 116, 97, 102, 102, 95, 66, 111, 98, 34, 125, 44, 123, 34, 108, 101, 118, 101, 108, 34, 58, 49, 125, 44, 123, 34, 108, 101, 118, 101, 108, 34, 58, 50, 44, 34, 110, 97, 109, 101, 34, 58, 34, 83, 116, 97, 102, 102, 95, 65, 109, 121, 34, 125, 93, 125>>

\* A save whose Ingredients and InventoryItemSlot are there but are not maps,
\* and whose Staff is null.
\* {"Ingredients":[{"count":1,"ingredientsID":5}],"InventoryItemSlot":3,"Staff":null}
TextSections == <<123, 34, 73, 110, 103, 114, 101, 100, 105, 101, 110, 116, 115, 34, 58, 91, 123, 34, 99, 111, 117, 110, 116, 34, 58, 49, 44, 34, 105, 110, 103, 114, 101, 100, 105, 101, 110, 116, 115, 73, 68, 34, 58, 53, 125, 93, 44, 34, 73, 110, 118, 101, 110, 116, 111, 114, 121, 73, 116, 101, 109, 83, 108, 111, 116, 34, 58, 51, 44, 34, 83, 116, 97, 102, 102, 34, 58, 110, 117, 108, 108, 125>>

BulkSav == SavePath("GameSave_05_GD")
MalformedSav == SavePath("GameSave_06_GD")
SectionsSav == SavePath("GameSave_07_GD")
BulkPaths == {FullSav, BulkSav, MalformedSav, SectionsSav}

BulkDisk ==
    [p \in BulkPaths |->
        CASE p = FullSav -> XORDecryptEncrypt(TextFull, XOR_KEY)
          [] p = BulkSav -> XORDecryptEncrypt(TextBulk, XOR_KEY)
          [] p = MalformedSav -> XORDecryptEncrypt(TextMalformed, XOR_KEY)
          [] p = SectionsSav -> XORDecryptEncrypt(TextSections, XOR_KEY)]

\* The seconds the clock can show when a call reads it (the backup's timestamp).
Seconds == {1, 2}

\* Values a caller passes to the currency setters: below and above the maximum.
SetterValues == {7, SAVE_MAX_CURRENCY + 1}

\* Bytes the codec is tried on, and the capacities the classifier is tried on.
CodecBytes == {0, 123, 255}
TierInputs == (0 - MaxNegative)..MaxCapacity

(***************************************************************************)
(* The state.                                                              *)
(***************************************************************************)
VARIABLES
    m_isSaveFileLoaded,     \* SaveGameManager::m_isSaveFileLoaded
    m_currentSaveFilePath,  \* SaveGameManager::m_currentSaveFilePath
    m_saveData,             \* SaveGameManager::m_saveData
    disk,                   \* the files: path -> bytes, for every file that exists
    dirs,                   \* the directories that exist
    now,                    \* the system clock when it was last read, in seconds
    tempPathOk,             \* whether GetTempPathW succeeds on this machine
    everLoaded,             \* history: some LoadSaveFile has returned true
    last,                   \* the last call: what was called, with what, and what it returned
    calls,                  \* number of calls so far
    codec,                  \* the codec under test: input, output, output decoded again
    tier,                   \* the classifier under test: input and output
    g_refDb                 \* the reference store the window procedure passes on

vars == <<m_isSaveFileLoaded, m_currentSaveFilePath, m_saveData, disk, dirs, now,
          tempPathOk, everLoaded, last, calls, codec, tier, g_refDb>>
engine == <<m_isSaveFileLoaded, m_currentSaveFilePath, m_saveData>>
files == <<disk, dirs>>
pure == <<codec, tier>>

\* The record of a call.  op: the operation; path: LoadSaveFile's argument;
\* n: a setter's argument or a getter's result; ret: the bool returned;
\* out: out_backup_filepath after the call; fault: the step that failed
\* ("none": no step failed); log: the filesystem operations the call made,
\* in order; raised: an exception left the call; again: the call before it
\* was the same bulk mutator; edited: the call is a Load of the path that was
\* loaded, and the document it found in memory was not the one it parsed.
Call(op, path, n, ret, out, fault, log) ==
    [op |-> op, path |-> path, n |-> n, ret |-> ret, out |-> out,
     fault |-> fault, log |-> log, raised |-> FALSE, again |-> FALSE,
     edited |-> FALSE]
NoCall == Call("none", EmptyPath, 0, FALSE, EmptyPath, "none", <<>>)

(***************************************************************************)
(* LoadSaveFile.                                                           *)
(***************************************************************************)
\* The engine's three members as one record.
Engine(loaded, path, doc) == [loaded |-> loaded, path |-> path, doc |-> doc]

\* LoadSaveFile without the clearing of the members.
KeepState(prior) == prior

\* LoadSaveFile clearing the flag only.
ClearFlagOnly(prior) == Engine(FALSE, prior.path, prior.doc)

\* What LoadSaveFile does before it opens the file: the members are cleared.
ClearState(prior) == Engine(FALSE, EmptyPath, JNull)

\* LoadSaveFile keeping the document in memory when the path is the one loaded.
LoadSaveFileResultKeeping(prior, d, filepath) ==
    IF filepath \notin DOMAIN d
    THEN [ret |-> FALSE, fault |-> "open", st |-> ClearState(prior)]
    ELSE LET parsed == Parse(XORDecryptEncrypt(d[filepath], XOR_KEY))
         IN  IF ~parsed.ok
             THEN [ret |-> FALSE, fault |-> "parse", st |-> ClearState(prior)]
             ELSE IF prior.loaded /\ prior.path = filepath
             THEN [ret |-> TRUE, fault |-> "none", st |-> prior]
             ELSE [ret |-> TRUE, fault |-> "none", st |-> Engine(TRUE, filepath, parsed.v)]

\* LoadSaveFile recording the path before it parses the file.
LoadSaveFileResultPathFirst(prior, d, filepath) ==
    IF filepath \notin DOMAIN d
    THEN [ret |-> FALSE, fault |-> "open", st |-> ClearState(prior)]
    ELSE LET parsed == Parse(XORDecryptEncrypt(d[filepath], XOR_KEY))
         IN  IF parsed.ok
             THEN [ret |-> TRUE, fault |-> "none", st |-> Engine(TRUE, filepath, parsed.v)]
             ELSE [ret |-> FALSE, fault |-> "parse", st |-> Engine(FALSE, filepath, JNull)]

\* The call's outcome from the members before it, the disk and the argument:
\* [ret, fault, st]; st holds the members after the call.  An ifstream on a
\* missing file is not open; a parse_error is caught and false is returned.
LoadSaveFileResult(prior, d, filepath) ==
    LET cleared == ClearState(prior) IN
    IF filepath \notin DOMAIN d
    THEN [ret |-> FALSE, fault |-> "open", st |-> cleared]
    ELSE LET json_str == XORDecryptEncrypt(d[filepath], XOR_KEY)
             parsed == Parse(json_str)
         IN  IF parsed.ok
             THEN [ret |-> TRUE, fault |-> "none", st |-> Engine(TRUE, filepath, parsed.v)]
             ELSE [ret |-> FALSE, fault |-> "parse", st |-> cleared]

LoadSaveFile(filepath) ==
    /\ calls < MaxCalls
    /\ LET r == LoadSaveFileResult(
                    Engine(m_isSaveFileLoaded, m_currentSaveFilePath, m_saveData),
                    disk, filepath)
       IN  /\ m_isSaveFileLoaded' = r.st.loaded
           /\ m_currentSaveFilePath' = r.st.path
           /\ m_saveData' = r.st.doc
           /\ everLoaded' = (everLoaded \/ r.ret)
           /\ last' = [Call("Load", filepath, 0, r.ret, EmptyPath, r.fault, <<>>)
                           EXCEPT !.edited = /\ m_isSaveFileLoaded
                                             /\ m_currentSaveFilePath = filepath
                                             /\ r.ret
                                             /\ m_saveData # r.st.doc]
    /\ calls' = calls + 1
    /\ UNCHANGED <<files, now, tempPathOk, pure, g_refDb>>

(***************************************************************************)
(* WriteSaveFile.  The filesystem a call works on is [disk, dirs, log];    *)
(* each step below is one call the code makes, applied in the code's order.*)
(***************************************************************************)
PutFile(d, p, bytes) == [q \in (DOMAIN d) \cup {p} |-> IF q = p THEN bytes ELSE d[q]]

\* std::filesystem::create_directories(dir)
CreateDirectories(fs, dir) ==
    [fs EXCEPT !.dirs = @ \cup {dir}, !.log = Append(@, "mkdir")]

\* A copy made of the original once it has been emptied.
CopyFileAfterTruncate(fs, from, to) ==
    [fs EXCEPT !.disk = PutFile(@, to, <<>>), !.log = Append(@, "copy")]

\* std::filesystem::copy(from, to, overwrite_existing)
CopyFile(fs, from, to) ==
    [fs EXCEPT !.disk = PutFile(@, to, fs.disk[from]), !.log = Append(@, "copy")]

\* std::ofstream(p, binary | trunc): the file is emptied as it is opened.
OpenTruncate(fs, p) ==
    [fs EXCEPT !.disk = PutFile(@, p, <<>>), !.log = Append(@, "open")]

\* output_file.write(bytes); close(): n of the bytes reach the file.
WriteBytes(fs, p, bytes, n) ==
    [fs EXCEPT !.disk = PutFile(@, p, fs.disk[p] \o SubSeq(bytes, 1, n)),
               !.log = Append(@, "write")]

\* The backup directory: the temp folder's subfolder, or "backups" beside the file.
BackupDir(original_path, temp_ok) ==
    IF temp_ok THEN TempBackupDir ELSE Append(original_path.dir, "backups")

\* backup_dir / (stem + "_" + timestamp + extension)
BackupPath(original_path, backup_dir, timestamp) ==
    [dir |-> backup_dir, name |-> original_path.name, stamp |-> timestamp]

\* The faults the environment can raise in a call, by the step they hit:
\* "path" (building the paths throws), "mkdir" (create_directories throws),
\* "copy" (copy throws), "dump" (serializing or encoding throws), "open"
\* (the ofstream is not open), "write" (the stream fails while writing: only
\* part of the bytes reach the file).
WriteFaults == {"none", "path", "mkdir", "copy", "dump", "open", "write"}

\* WriteSaveFile without its opening check.
WritePreconditionNone(st) == TRUE

\* The check the call starts with: a file is loaded and its path is known.
WritePrecondition(st) == st.loaded /\ st.path # EmptyPath

\* The first half of the call with a failed copy passed over.
MakeBackupIgnoringCopyError(st, fs, temp_ok, before, timestamp, fault) ==
    IF fault \in {"path", "mkdir"}
    THEN [ok |-> FALSE, fault |-> fault, fs |-> fs, backup_path |-> EmptyPath,
          clock |-> before]
    ELSE
      LET backup_dir == BackupDir(st.path, temp_ok)
          fs1 == CreateDirectories(fs, backup_dir)
          backup_path == BackupPath(st.path, backup_dir, timestamp)
      IN [ok |-> TRUE, fault |-> fault,
          fs |-> IF fault = "copy" \/ st.path \notin DOMAIN fs1.disk
                 THEN fs1 ELSE CopyFile(fs1, st.path, backup_path),
          backup_path |-> backup_path, clock |-> timestamp]

\* The first half of the call: the backup directory is chosen and created,
\* the clock is read and the original is copied to the backup path.  The
\* outcome is [ok, fault, fs, backup_path, clock]: clock is the time the
\* call read, or the time before the call when it failed before reading it.
MakeBackup(st, fs, temp_ok, before, timestamp, fault) ==
    LET Thrown(why, f, clock) ==
            [ok |-> FALSE, fault |-> why, fs |-> f, backup_path |-> EmptyPath,
             clock |-> clock]
    IN
    IF fault = "path" THEN Thrown("path", fs, before)
    ELSE IF fault = "mkdir" THEN Thrown("mkdir", fs, before)
    ELSE
      LET backup_dir == BackupDir(st.path, temp_ok)
          fs1 == CreateDirectories(fs, backup_dir)
          backup_path == BackupPath(st.path, backup_dir, timestamp)
      IN
      IF fault = "copy" \/ st.path \notin DOMAIN fs1.disk
      THEN Thrown("copy", fs1, timestamp)
      ELSE [ok |-> TRUE, fault |-> "none", fs |-> CopyFile(fs1, st.path, backup_path),
            backup_path |-> backup_path, clock |-> timestamp]

\* The second half: the document is serialized and encoded, the original is
\* opened with trunc and the bytes are written; the stream's state after
\* write() is not looked at.  The outcome is [ret, out, fault, fs]; written
\* is the number of bytes that reach the file when the fault is "write".
Overwrite(st, fs, backup_path, fault, written) ==
    LET json_to_write_str == Dump(st.doc)
        final_bytes == XORDecryptEncrypt(json_to_write_str, XOR_KEY)
    IN
    IF fault \in {"dump", "open"}
    THEN [ret |-> FALSE, out |-> EmptyPath, fault |-> fault, fs |-> fs]
    ELSE
      LET fs3 == OpenTruncate(fs, st.path)
          fs4 == WriteBytes(fs3, st.path, final_bytes,
                            IF fault = "write" THEN written ELSE Len(final_bytes))
      IN [ret |-> TRUE, out |-> backup_path,
          fault |-> (IF fault = "write" THEN "write" ELSE "none"), fs |-> fs4]

\* The call's outcome: [ret, out, fault, fs, clock].
WriteSaveFileResult(st, fs0, temp_ok, before, timestamp, fault, written) ==
    LET fs == [fs0 EXCEPT !.log = <<>>] IN
    IF ~WritePrecondition(st)
    THEN [ret |-> FALSE, out |-> EmptyPath, fault |-> "precondition", fs |-> fs,
          clock |-> before]
    ELSE
      LET b == MakeBackup(st, fs, temp_ok, before, timestamp, fault) IN
      IF ~b.ok
      THEN [ret |-> FALSE, out |-> EmptyPath, fault |-> b.fault, fs |-> b.fs,
            clock |-> b.clock]
      ELSE
        LET w == Overwrite(st, b.fs, b.backup_path, fault, written) IN
        [ret |-> w.ret, out |-> w.out, fault |-> w.fault, fs |-> w.fs, clock |-> b.clock]

\* The times a call can read: the clock does not run backwards.
ClockReads == {t \in Seconds : t >= now}

\* How many bytes a failing write leaves in the file: none, or the first half.
ShortWrites == {0, Len(Dump(m_saveData)) \div 2}

\* WriteSaveFile unloading the engine when it fails.
WriteSaveFileUnloading(timestamp, fault, written) ==
    /\ calls < MaxCalls
    /\ LET st == Engine(m_isSaveFileLoaded, m_currentSaveFilePath, m_saveData)
           r == WriteSaveFileResult(st, [disk |-> disk, dirs |-> dirs, log |-> <<>>],
                                    tempPathOk, now, timestamp, fault, written)
           after == IF r.ret THEN st ELSE ClearState(st)
       IN  /\ disk' = r.fs.disk
           /\ dirs' = r.fs.dirs
           /\ now' = r.clock
           /\ last' = Call("Write", EmptyPath, 0, r.ret, r.out, r.fault, r.fs.log)
           /\ m_isSaveFileLoaded' = after.loaded
           /\ m_currentSaveFilePath' = after.path
           /\ m_saveData' = after.doc
    /\ calls' = calls + 1
    /\ UNCHANGED <<tempPathOk, everLoaded, pure, g_refDb>>

WriteSaveFile(timestamp, fault, written) ==
    /\ calls < MaxCalls
    /\ LET st == Engine(m_isSaveFileLoaded, m_currentSaveFilePath, m_saveData)
           r == WriteSaveFileResult(st, [disk |-> disk, dirs |-> dirs, log |-> <<>>],
                                    tempPathOk, now, timestamp, fault, written)
       IN  /\ disk' = r.fs.disk
           /\ dirs' = r.fs.dirs
           /\ now' = r.clock
           /\ last' = Call("Write", EmptyPath, 0, r.ret, r.out, r.fault, r.fs.log)
    /\ calls' = calls + 1
    /\ UNCHANGED <<engine, tempPathOk, everLoaded, pure, g_refDb>>

(***************************************************************************)
(* The typed getters and setters.                                          *)
(***************************************************************************)
\* A getter's outcome [n, raised]: 0 unless the document is loaded, holds an
\* object under section and that object holds field; then the field's value.
\* get<long long>() converts a boolean to 0 or 1 and throws a type_error for
\* a value that is neither a number nor a boolean.
GetterResult(st, section, field) ==
    IF st.loaded /\ contains(st.doc, section) /\ is_object(at(st.doc, section))
       /\ contains(at(st.doc, section), field)
    THEN LET x == at(at(st.doc, section), field) IN
         IF is_number_integer(x) THEN [n |-> Val(x), raised |-> FALSE]
         ELSE IF is_boolean(x) THEN [n |-> IF Val(x) THEN 1 ELSE 0, raised |-> FALSE]
         ELSE [n |-> 0, raised |-> TRUE]
    ELSE [n |-> 0, raised |-> FALSE]

Getter(op, section, field) ==
    /\ calls < MaxCalls
    /\ LET r == GetterResult(Engine(m_isSaveFileLoaded, m_currentSaveFilePath, m_saveData),
                             section, field)
       IN  last' = [Call(op, EmptyPath, r.n, FALSE, EmptyPath, "none", <<>>)
                       EXCEPT !.raised = r.raised]
    /\ calls' = calls + 1
    /\ UNCHANGED <<engine, files, now, tempPathOk, everLoaded, pure, g_refDb>>

GetGold == Getter("GetGold", K_PlayerInfo, K_Gold)
GetBei == Getter("GetBei", K_PlayerInfo, K_Bei)
GetArtisansFlame == Getter("GetArtisansFlame", K_PlayerInfo, K_ChefFlame)
GetFollowerCount == Getter("GetFollowerCount", K_SNSInfo, K_FollowCount)

\* The setters' value stored as given.
NoClamp(value) == value

\* std::min(value, SAVE_MAX_CURRENCY)
ClampCurrency(value) == IF value < SAVE_MAX_CURRENCY THEN value ELSE SAVE_MAX_CURRENCY

\* The follower count clamped like a currency.
FollowerValueClamped(value) ==
    IF value < SAVE_MAX_CURRENCY THEN value ELSE SAVE_MAX_CURRENCY

\* m_Follow_Count = value: the value is stored as given.
FollowerValue(value) == value

\* A setter that creates the section it does not find.
SetterResultCreating(st, section, field, stored) ==
    IF st.loaded /\ is_object(st.doc)
    THEN IF contains(st.doc, section) /\ is_object(at(st.doc, section))
         THEN SetField(st.doc, section, field, JInt(stored))
         ELSE ObjSet(st.doc, section, JObj(<< <<field, JInt(stored)>> >>))
    ELSE st.doc

\* The document after a setter that stores stored in section.field: written
\* only when loaded and the section is an object, else the document is kept.
SetterResult(st, section, field, stored) ==
    IF st.loaded /\ contains(st.doc, section) /\ is_object(at(st.doc, section))
    THEN SetField(st.doc, section, field, JInt(stored))
    ELSE st.doc

Setter(op, section, field, value, stored) ==
    /\ calls < MaxCalls
    /\ m_saveData' = SetterResult(
                        Engine(m_isSaveFileLoaded, m_currentSaveFilePath, m_saveData),
                        section, field, stored)
    /\ last' = Call(op, EmptyPath, value, FALSE, EmptyPath, "none", <<>>)
    /\ calls' = calls + 1
    /\ UNCHANGED <<m_isSaveFileLoaded, m_currentSaveFilePath, files, now, tempPathOk,
                   everLoaded, pure, g_refDb>>

SetGold(value) == Setter("SetGold", K_PlayerInfo, K_Gold, value, ClampCurrency(value))
SetBei(value) == Setter("SetBei", K_PlayerInfo, K_Bei, value, ClampCurrency(value))
SetArtisansFlame(value) ==
    Setter("SetArtisansFlame", K_PlayerInfo, K_ChefFlame, value, ClampCurrency(value))
SetFollowerCount(value) ==
    Setter("SetFollowerCount", K_SNSInfo, K_FollowCount, value, FollowerValue(value))

(***************************************************************************)
(* The reference store g_refDb.  A store is [open, tables, Items,          *)
(* Ingredients]: open is FALSE for a null handle; tables is FALSE when the *)
(* embedded SQL was not executed (every statement on it fails); Items is   *)
(* the rows [TID, ItemDataID, MaxCount] and Ingredients the rows [TID], in *)
(* the order a scan returns them.                                          *)
(***************************************************************************)
Store(open, tables, items, ingredients) ==
    [open |-> open, tables |-> tables, Items |-> items, Ingredients |-> ingredients]

\* sqlite3_prepare_v2 / sqlite3_exec return SQLITE_OK.
StatementOk(db) == db.tables

\* SELECT MaxCount FROM Items WHERE <column> = id, first row: [found, MaxCount].
RECURSIVE SelectMaxCount(_, _, _, _)
SelectMaxCount(db, column, id, i) ==
    IF i > Len(db.Items) THEN [found |-> FALSE, MaxCount |-> 0]
    ELSE IF db.Items[i][column] = id
         THEN [found |-> TRUE, MaxCount |-> db.Items[i].MaxCount]
         ELSE SelectMaxCount(db, column, id, i + 1)

\* The rows of Ingredients AS I JOIN Items AS T ON I.TID = T.ItemDataID, as
\* the callback collects them: [ingredientsID_for_save_file_key, parentID, MaxCount].
RECURSIVE JoinFrom(_, _, _)
JoinFrom(db, i, t) ==
    IF i > Len(db.Ingredients) THEN <<>>
    ELSE IF t > Len(db.Items) THEN JoinFrom(db, i + 1, 1)
    ELSE (IF db.Ingredients[i].TID = db.Items[t].ItemDataID
          THEN << [ingredientsID_for_save_file_key |-> db.Ingredients[i].TID,
                   parentID |-> db.Items[t].TID,
                   MaxCount |-> db.Items[t].MaxCount] >>
          ELSE <<>>) \o JoinFrom(db, i, t + 1)

\* The stores the program can hold after start-up: none (the handle is null),
\* one whose SQL was not executed, and a populated one.  In the populated
\* store ItemDataID and TID both identify a row, and they differ on some rows;
\* the capacities cover every tier.
Item(tid, item_data_id, max_count) ==
    [TID |-> tid, ItemDataID |-> item_data_id, MaxCount |-> max_count]
NoDb == Store(FALSE, FALSE, <<>>, <<>>)
EmptyDb == Store(TRUE, FALSE, <<>>, <<>>)
RefDb == Store(TRUE, TRUE,
               <<Item(7, 5, 99), Item(5, 9, 999), Item(3, 3, 1), Item(10, 10, 9999)>>,
               <<[TID |-> 5], [TID |-> 3], [TID |-> 10], [TID |-> 4]>>)
RefStores == {NoDb, EmptyDb, RefDb}

(***************************************************************************)
(* The bulk mutators.  Each gives [doc, raised]: the document the call     *)
(* leaves and whether a json exception left the call.                      *)
(***************************************************************************)
Outcome(doc, raised) == [doc |-> doc, raised |-> raised]

\* j[key] = val through the non-const operator[]: an object takes the key, a
\* null becomes an object first, anything else throws type_error 305.
\* [ok, v]
Assign(j, key, val) ==
    IF is_object(j) THEN [ok |-> TRUE, v |-> ObjSet(j, key, val)]
    ELSE IF Kind(j) = "null" THEN [ok |-> TRUE, v |-> JObj(<< <<key, val>> >>)]
    ELSE [ok |-> FALSE, v |-> j]

\* One entry of MaxOwnIngredients' or MaxOwnMaterials' loop: the entry after
\* it.  id_field is the entry's identifier, column the Items column it is
\* looked up by, count_field the field that is written.
OwnEntry(entry, db, id_field, column, count_field) ==
    IF contains(entry, id_field) /\ is_number_integer(at(entry, id_field))
    THEN LET row == SelectMaxCount(db, column, Val(at(entry, id_field)), 1)
             target_count == GetDesiredMaxCountForTier(row.MaxCount)
         IN  IF row.found /\ target_count > 0
             THEN ObjSet(entry, count_field, JInt(target_count))
             ELSE entry
    ELSE entry

\* MaxOwnIngredients and MaxOwnMaterials: the guards, then the loop over
\* the collection under section.
OwnResult(st, db, section, id_field, column, count_field) ==
    IF ~st.loaded \/ ~contains(st.doc, section) \/ ~is_object(at(st.doc, section))
    THEN Outcome(st.doc, FALSE)
    ELSE IF ~db.open THEN Outcome(st.doc, FALSE)
    ELSE IF ~StatementOk(db) THEN Outcome(st.doc, FALSE)
    ELSE LET map == Val(at(st.doc, section))
             after == [i \in 1..Len(map) |->
                          <<map[i][1], OwnEntry(map[i][2], db, id_field, column, count_field)>>]
         IN  Outcome(ObjSet(st.doc, section, JObj(after)), FALSE)

\* MaxOwnMaterials looking the item up by ItemDataID.
MaxOwnMaterialsResultByItemDataID(st, db) ==
    OwnResult(st, db, K_InventoryItemSlot, K_itemID, "ItemDataID", K_totalCount)

MaxOwnIngredientsResult(st, db) ==
    OwnResult(st, db, K_Ingredients, K_ingredientsID, "ItemDataID", K_count)

MaxOwnMaterialsResult(st, db) ==
    OwnResult(st, db, K_InventoryItemSlot, K_itemID, "TID", K_totalCount)

\* One staff entry of MaxOwnStaffLevel's loop: [ok, v].  it.value()["name"]
\* adds a null name to an entry that has none, and get<std::string>() throws
\* unless the name is a string.
StaffEntry(entry) ==
    IF is_object(entry) \/ Kind(entry) = "null"
    THEN LET named == IF contains(entry, K_name) THEN entry
                      ELSE Assign(entry, K_name, JNull).v
             staff_name == at(named, K_name)
         IN  IF ~is_string(staff_name) THEN [ok |-> FALSE, v |-> named]
             ELSE IF Val(staff_name) = Staff_Dave THEN [ok |-> TRUE, v |-> named]
             ELSE [ok |-> TRUE, v |-> ObjSet(named, K_level, JInt(20))]
    ELSE [ok |-> FALSE, v |-> entry]

\* The loop from entry i on, over the values of the collection: [values, raised].
\* An exception ends the loop and leaves what was done before it.
RECURSIVE StaffFrom(_, _)
StaffFrom(values, i) ==
    IF i > Len(values) THEN [values |-> values, raised |-> FALSE]
    ELSE LET r == StaffEntry(values[i])
             done == [values EXCEPT ![i] = r.v]
         IN  IF r.ok THEN StaffFrom(done, i + 1)
             ELSE [values |-> done, raised |-> TRUE]

\* MaxOwnStaffLevel.  Staff is iterated whatever it is: an object by its
\* values, an array by its items, null as empty, any other value as the one
\* element that it is itself.
MaxOwnStaffLevelResult(st) ==
    IF ~st.loaded \/ ~contains(st.doc, K_Staff) THEN Outcome(st.doc, FALSE)
    ELSE LET staff == at(st.doc, K_Staff) IN
         IF is_object(staff)
         THEN LET map == Val(staff)
                  r == StaffFrom([i \in 1..Len(map) |-> map[i][2]], 1)
              IN  Outcome(ObjSet(st.doc, K_Staff,
                                 JObj([i \in 1..Len(map) |-> <<map[i][1], r.values[i]>>])),
                          r.raised)
         ELSE IF Kind(staff) = "arr"
         THEN LET r == StaffFrom(Val(staff), 1)
              IN  Outcome(ObjSet(st.doc, K_Staff, JArr(r.values)), r.raised)
         ELSE IF Kind(staff) = "null" THEN Outcome(st.doc, FALSE)
         ELSE Outcome(st.doc, TRUE)

\* The new entry without its isNew mark.
NewIngredientEntryUnmarked(row, target_count, lastGainTime, lastGainGameTime) ==
    LET e1 == Assign(JNull, K_ingredientsID, JInt(row.ingredientsID_for_save_file_key)).v
        e2 == ObjSet(e1, K_level, JInt(1))
        e3 == ObjSet(e2, K_parentID, JInt(row.parentID))
        e4 == ObjSet(e3, K_count, JInt(target_count))
        e5 == ObjSet(e4, K_branchCount, JInt(0))
        e6 == ObjSet(e5, K_lastGainTime, JStr(lastGainTime))
        e7 == ObjSet(e6, K_lastGainGameTime, JStr(lastGainGameTime))
    IN  ObjSet(e7, K_placeTagMask, JInt(1))

\* new_ingredient_entry
NewIngredientEntry(row, target_count, lastGainTime, lastGainGameTime) ==
    LET e1 == Assign(JNull, K_ingredientsID, JInt(row.ingredientsID_for_save_file_key)).v
        e2 == ObjSet(e1, K_level, JInt(1))
        e3 == ObjSet(e2, K_parentID, JInt(row.parentID))
        e4 == ObjSet(e3, K_count, JInt(target_count))
        e5 == ObjSet(e4, K_branchCount, JInt(0))
        e6 == ObjSet(e5, K_lastGainTime, JStr(lastGainTime))
        e7 == ObjSet(e6, K_lastGainGameTime, JStr(lastGainGameTime))
        e8 == ObjSet(e7, K_isNew, JBool(TRUE))
    IN  ObjSet(e8, K_placeTagMask, JInt(1))

\* The timestamp taken from no entry.
DefaultTimeFixed(ingredients_json_map, field, default) == default

\* The timestamp new entries get: the first entry's string under field, or
\* the default.
DefaultTime(ingredients_json_map, field, default) ==
    IF Len(Val(ingredients_json_map)) > 0
    THEN LET first_item_value == Val(ingredients_json_map)[1][2] IN
         IF contains(first_item_value, field) /\ is_string(at(first_item_value, field))
         THEN Val(at(first_item_value, field))
         ELSE default
    ELSE default

\* The loop's row with the target added to the count of an entry that exists.
AllRowAdding(ingredients_json_map, row, lastGainTime, lastGainGameTime) ==
    LET target_count == GetDesiredMaxCountForTier(row.MaxCount)
        ingredient_key == IntText(row.ingredientsID_for_save_file_key)
    IN  IF target_count = 0 THEN [ok |-> TRUE, v |-> ingredients_json_map]
        ELSE IF contains(ingredients_json_map, ingredient_key)
        THEN LET entry == at(ingredients_json_map, ingredient_key)
                 had == IF contains(entry, K_count) /\ is_number_integer(at(entry, K_count))
                        THEN Val(at(entry, K_count)) ELSE 0
                 r == Assign(entry, K_count, JInt(had + target_count))
             IN  [ok |-> r.ok, v |-> ObjSet(ingredients_json_map, ingredient_key, r.v)]
        ELSE [ok |-> TRUE,
              v |-> ObjSet(ingredients_json_map, ingredient_key,
                           NewIngredientEntry(row, target_count, lastGainTime,
                                              lastGainGameTime))]

\* One row of MaxAllIngredients' loop applied to the collection: [ok, v].
AllRow(ingredients_json_map, row, lastGainTime, lastGainGameTime) ==
    LET target_count == GetDesiredMaxCountForTier(row.MaxCount)
        ingredient_key == IntText(row.ingredientsID_for_save_file_key)
    IN  IF target_count = 0 THEN [ok |-> TRUE, v |-> ingredients_json_map]
        ELSE IF contains(ingredients_json_map, ingredient_key)
        THEN LET r == Assign(at(ingredients_json_map, ingredient_key), K_count,
                             JInt(target_count))
             IN  [ok |-> r.ok, v |-> ObjSet(ingredients_json_map, ingredient_key, r.v)]
        ELSE [ok |-> TRUE,
              v |-> ObjSet(ingredients_json_map, ingredient_key,
                           NewIngredientEntry(row, target_count, lastGainTime,
                                              lastGainGameTime))]

\* The loop from row i on: [map, raised].
RECURSIVE AllFrom(_, _, _, _, _)
AllFrom(ingredients_json_map, rows, i, lastGainTime, lastGainGameTime) ==
    IF i > Len(rows) THEN [map |-> ingredients_json_map, raised |-> FALSE]
    ELSE LET r == AllRow(ingredients_json_map, rows[i], lastGainTime, lastGainGameTime)
         IN  IF r.ok THEN AllFrom(r.v, rows, i + 1, lastGainTime, lastGainGameTime)
             ELSE [map |-> r.v, raised |-> TRUE]

\* The section is created, or put in place of a value that is not a map.
EnsureIngredients(doc) ==
    IF ~contains(doc, K_Ingredients) \/ ~is_object(at(doc, K_Ingredients))
    THEN ObjSet(doc, K_Ingredients, JObj(<<>>))
    ELSE doc

\* MaxAllIngredients creating the section before it looks at the handle.
MaxAllIngredientsResultCreatingFirst(st, db) ==
    IF ~st.loaded THEN Outcome(st.doc, FALSE)
    ELSE LET doc1 == EnsureIngredients(st.doc)
             ingredients_json_map == at(doc1, K_Ingredients)
         IN  IF ~db.open \/ ~StatementOk(db) THEN Outcome(doc1, FALSE)
             ELSE LET r == AllFrom(ingredients_json_map, JoinFrom(db, 1, 1), 1,
                                   DefaultTime(ingredients_json_map, K_lastGainTime,
                                               Default_lastGainTime),
                                   DefaultTime(ingredients_json_map, K_lastGainGameTime,
                                               Default_lastGainGameTime))
                  IN  Outcome(ObjSet(doc1, K_Ingredients, r.map), r.raised)

MaxAllIngredientsResult(st, db) ==
    IF ~st.loaded THEN Outcome(st.doc, FALSE)
    ELSE IF ~db.open THEN Outcome(st.doc, FALSE)
    ELSE LET doc1 == EnsureIngredients(st.doc)
             ingredients_json_map == at(doc1, K_Ingredients)
             default_lastGainTime ==
                 DefaultTime(ingredients_json_map, K_lastGainTime, Default_lastGainTime)
             default_lastGainGameTime ==
                 DefaultTime(ingredients_json_map, K_lastGainGameTime,
                             Default_lastGainGameTime)
         IN  IF ~StatementOk(db) THEN Outcome(doc1, FALSE)
             ELSE LET r == AllFrom(ingredients_json_map, JoinFrom(db, 1, 1), 1,
                                   default_lastGainTime, default_lastGainGameTime)
                  IN  Outcome(ObjSet(doc1, K_Ingredients, r.map), r.raised)

\* A bulk mutator that saves the document to the loaded file when it is done.
BulkSaving(op, r) ==
    /\ calls < MaxCalls
    /\ m_saveData' = r.doc
    /\ disk' = IF m_isSaveFileLoaded
               THEN PutFile(disk, m_currentSaveFilePath,
                            XORDecryptEncrypt(Dump(r.doc), XOR_KEY))
               ELSE disk
    /\ last' = [Call(op, EmptyPath, 0, FALSE, EmptyPath, "none", <<>>)
                    EXCEPT !.raised = r.raised, !.again = (last.op = op)]
    /\ calls' = calls + 1
    /\ UNCHANGED <<m_isSaveFileLoaded, m_currentSaveFilePath, dirs, now, tempPathOk,
                   everLoaded, pure, g_refDb>>

\* A bulk mutator called from its button.
Bulk(op, r) ==
    /\ calls < MaxCalls
    /\ m_saveData' = r.doc
    /\ last' = [Call(op, EmptyPath, 0, FALSE, EmptyPath, "none", <<>>)
                    EXCEPT !.raised = r.raised, !.again = (last.op = op)]
    /\ calls' = calls + 1
    /\ UNCHANGED <<m_isSaveFileLoaded, m_currentSaveFilePath, files, now, tempPathOk,
                   everLoaded, pure, g_refDb>>

MaxOwnIngredients ==
    Bulk("MaxOwnIngredients",
         MaxOwnIngredientsResult(
             Engine(m_isSaveFileLoaded, m_currentSaveFilePath, m_saveData), g_refDb))
MaxOwnMaterials ==
    Bulk("MaxOwnMaterials",
         MaxOwnMaterialsResult(
             Engine(m_isSaveFileLoaded, m_currentSaveFilePath, m_saveData), g_refDb))
MaxOwnStaffLevel ==
    Bulk("MaxOwnStaffLevel",
         MaxOwnStaffLevelResult(
             Engine(m_isSaveFileLoaded, m_currentSaveFilePath, m_saveData)))
MaxAllIngredients ==
    Bulk("MaxAllIngredients",
         MaxAllIngredientsResult(
             Engine(m_isSaveFileLoaded, m_currentSaveFilePath, m_saveData), g_refDb))

(***************************************************************************)
(* The engine's specification.                                             *)
(***************************************************************************)
PureIdle ==
    /\ codec = [in |-> <<>>, out |-> <<>>, back |-> <<>>, stage |-> 0]
    /\ tier = [in |-> 0, out |-> 0, done |-> FALSE]

Init ==
    /\ m_isSaveFileLoaded = FALSE
    /\ m_currentSaveFilePath = EmptyPath
    /\ m_saveData = JNull
    /\ disk = InitialDisk
    /\ dirs = {SaveDir}
    /\ now = 1
    /\ tempPathOk \in BOOLEAN
    /\ everLoaded = FALSE
    /\ last = NoCall
    /\ calls = 0
    /\ PureIdle
    /\ g_refDb = RefDb

Next ==
    \/ \E filepath \in SavePaths : LoadSaveFile(filepath)
    \/ \E timestamp \in ClockReads :
         \/ \E fault \in WriteFaults \ {"write"} : WriteSaveFile(timestamp, fault, 0)
         \/ \E written \in ShortWrites : WriteSaveFile(timestamp, "write", written)
    \/ GetGold
    \/ GetBei
    \/ GetArtisansFlame
    \/ GetFollowerCount
    \/ \E value \in SetterValues : SetGold(value)
    \/ \E value \in SetterValues : SetBei(value)
    \/ \E value \in SetterValues : SetArtisansFlame(value)
    \/ \E value \in SetterValues : SetFollowerCount(value)

Spec == Init /\ [][Next]_vars

(***************************************************************************)
(* The codec on its own: an input is drawn, encoded, and decoded again.    *)
(***************************************************************************)
CodecInputs == UNION {[1..n -> CodecBytes] : n \in 0..MaxCodecLen}

EngineIdle ==
    /\ m_isSaveFileLoaded = FALSE
    /\ m_currentSaveFilePath = EmptyPath
    /\ m_saveData = JNull
    /\ disk = InitialDisk
    /\ dirs = {SaveDir}
    /\ now = 1
    /\ tempPathOk = TRUE
    /\ everLoaded = FALSE
    /\ last = NoCall
    /\ calls = 0
    /\ g_refDb = RefDb

InitCodec ==
    /\ EngineIdle
    /\ codec \in {[in |-> q, out |-> <<>>, back |-> <<>>, stage |-> 0] : q \in CodecInputs}
    /\ tier = [in |-> 0, out |-> 0, done |-> FALSE]

Encode ==
    /\ codec.stage = 0
    /\ codec' = [codec EXCEPT !.out = XORDecryptEncrypt(codec.in, XOR_KEY), !.stage = 1]
    /\ UNCHANGED <<engine, files, now, tempPathOk, everLoaded, last, calls, tier, g_refDb>>

Decode ==
    /\ codec.stage = 1
    /\ codec' = [codec EXCEPT !.back = XORDecryptEncrypt(codec.out, XOR_KEY), !.stage = 2]
    /\ UNCHANGED <<engine, files, now, tempPathOk, everLoaded, last, calls, tier, g_refDb>>

NextCodec == Encode \/ Decode

SpecCodec == InitCodec /\ [][NextCodec]_vars

(***************************************************************************)
(* The classifier on its own: a capacity is drawn and classified.          *)
(***************************************************************************)
InitTier ==
    /\ EngineIdle
    /\ codec = [in |-> <<>>, out |-> <<>>, back |-> <<>>, stage |-> 0]
    /\ tier \in {[in |-> c, out |-> 0, done |-> FALSE] : c \in TierInputs}

Classify ==
    /\ ~tier.done
    /\ tier' = [tier EXCEPT !.out = GetDesiredMaxCountForTier(tier.in), !.done = TRUE]
    /\ UNCHANGED <<engine, files, now, tempPathOk, everLoaded, last, calls, codec, g_refDb>>

NextTier == Classify

SpecTier == InitTier /\ [][NextTier]_vars

(***************************************************************************)
(* The editing of a loaded save: a save with the collections is loaded and *)
(* the buttons of the editor are pressed, with each of the reference       *)
(* stores start-up can leave.                                              *)
(***************************************************************************)
\* The value the editing buttons pass to a setter.
ButtonValue == 99999

InitBulk ==
    /\ m_isSaveFileLoaded = FALSE
    /\ m_currentSaveFilePath = EmptyPath
    /\ m_saveData = JNull
    /\ disk = BulkDisk
    /\ dirs = {SaveDir}
    /\ now = 1
    /\ tempPathOk = TRUE
    /\ everLoaded = FALSE
    /\ last = NoCall
    /\ calls = 0
    /\ PureIdle
    /\ g_refDb \in RefStores

NextBulk ==
    \/ \E filepath \in BulkPaths : LoadSaveFile(filepath)
    \/ MaxOwnIngredients
    \/ MaxOwnMaterials
    \/ MaxOwnStaffLevel
    \/ MaxAllIngredients
    \/ GetGold
    \/ GetBei
    \/ GetArtisansFlame
    \/ GetFollowerCount
    \/ SetGold(ButtonValue)
    \/ SetBei(ButtonValue)
    \/ SetArtisansFlame(ButtonValue)
    \/ SetFollowerCount(ButtonValue)

SpecBulk == InitBulk /\ [][NextBulk]_vars

(***************************************************************************)
(* Properties.                                                             *)
(***************************************************************************)

\* The engine's members as one record, before and after a step.
Before == Engine(m_isSaveFileLoaded, m_currentSaveFilePath, m_saveData)
After == Engine(m_isSaveFileLoaded', m_currentSaveFilePath', m_saveData')

\* The step is a call of operation op.
Step(op) == calls' = calls + 1 /\ last'.op = op

\* The file at the current path holds the same bytes after the step, or is
\* absent before and after it.
OriginalUnchanged ==
    /\ (m_currentSaveFilePath \in DOMAIN disk') = (m_currentSaveFilePath \in DOMAIN disk)
    /\ m_currentSaveFilePath \in DOMAIN disk =>
           disk'[m_currentSaveFilePath] = disk[m_currentSaveFilePath]

\* The bytes a complete write of the in-memory document puts on disk.
CompleteEncoding == XORDecryptEncrypt(Dump(m_saveData), XOR_KEY)

MinOf(a, b) == IF a <= b THEN a ELSE b

\* ---- C1 ----
\* C1: in every Write the copy of the original to the backup path comes
\* before the original is opened for truncation, and a Write that fails
\* while choosing the backup directory, creating it or copying returns
\* false with an empty backup path and leaves the original's bytes as they
\* were.
C1_BackupBeforeTruncate ==
    [][Step("Write") =>
         /\ \A i \in 1..Len(last'.log) :
                last'.log[i] = "open" =>
                    \E j \in 1..(i - 1) : last'.log[j] = "copy"
         /\ last'.fault \in {"path", "mkdir", "copy"} =>
                /\ last'.ret = FALSE
                /\ last'.out = EmptyPath
                /\ OriginalUnchanged
                /\ \A i \in 1..Len(last'.log) : last'.log[i] # "open"]_vars

\* A Write of a loaded file whose copy failed: the directory was created,
\* nothing else happened, and the original still holds its first bytes.
C1_Witness ==
    /\ last.op = "Write"
    /\ last.fault = "copy"
    /\ last.ret = FALSE
    /\ last.log = <<"mkdir">>
    /\ m_isSaveFileLoaded
    /\ m_currentSaveFilePath \in DOMAIN disk
    /\ disk[m_currentSaveFilePath] = InitialDisk[m_currentSaveFilePath]

\* ---- C2 ----
\* C2: after any Write the original file holds either the bytes it held
\* before the call or the complete encoding of the in-memory document,
\* never an empty, truncated or partial file.
C2_NeverPartial ==
    [][(Step("Write") /\ m_currentSaveFilePath \in DOMAIN disk) =>
         /\ m_currentSaveFilePath \in DOMAIN disk'
         /\ \/ disk'[m_currentSaveFilePath] = disk[m_currentSaveFilePath]
            \/ disk'[m_currentSaveFilePath] = CompleteEncoding]_vars

\* ---- C3 ----
\* C3: a Write that returns true leaves a file at the backup path holding
\* the bytes the original held before the call, and reports that path; a
\* Write that returns false reports an empty backup path.
C3_BackupOnSuccess ==
    [][Step("Write") =>
         /\ last'.ret = TRUE =>
                /\ last'.out # EmptyPath
                /\ last'.out \in DOMAIN disk'
                /\ m_currentSaveFilePath \in DOMAIN disk
                /\ disk'[last'.out] = disk[m_currentSaveFilePath]
         /\ last'.ret = FALSE => last'.out = EmptyPath]_vars

\* A successful Write after an edit: the original has changed and the
\* reported backup holds the bytes the original started with.
C3_Witness ==
    /\ last.op = "Write"
    /\ last.ret = TRUE
    /\ last.fault = "none"
    /\ m_currentSaveFilePath = FullSav
    /\ last.out \in DOMAIN disk
    /\ disk[last.out] = InitialDisk[FullSav]
    /\ disk[FullSav] # InitialDisk[FullSav]

\* ---- C4 ----
\* Bitwise exclusive-or of two bytes, bit by bit.
BitXor(a, b) ==
    LET Bit(x, k) == (x \div (2 ^ k)) % 2
        Sum[k \in 0..8] ==
            IF k = 8 THEN 0
            ELSE (2 ^ k) * ((Bit(a, k) + Bit(b, k)) % 2) + Sum[k + 1]
    IN Sum[0]

\* C4: the codec keeps the length of its input, byte i of the output is
\* byte i of the input XOR key byte (i mod 8), and encoding the output
\* again gives the input back; for the empty input and for inputs longer
\* than the key as well.
C4_CodecInvolution ==
    /\ codec.stage >= 1 =>
           /\ Len(codec.out) = Len(codec.in)
           /\ \A i \in 1..Len(codec.in) :
                  codec.out[i] = BitXor(codec.in[i], XOR_KEY[((i - 1) % 8) + 1])
    /\ codec.stage = 2 => codec.back = codec.in

\* An input longer than the key went through the codec twice and came back.
C4_Witness ==
    /\ codec.stage = 2
    /\ Len(codec.in) > Len(XOR_KEY)
    /\ codec.out # codec.in
    /\ codec.back = codec.in
    /\ codec.out[Len(XOR_KEY) + 1] = BitXor(codec.in[Len(XOR_KEY) + 1], XOR_KEY[1])

\* ---- C5 ----
\* C5: a Write that returns true leaves the original holding exactly the
\* encoding of the serialized document, and a Load of that path then
\* succeeds with a document equal to the one written.
C5_WriteThenLoad ==
    [][(Step("Write") /\ last'.ret = TRUE) =>
         /\ m_currentSaveFilePath \in DOMAIN disk'
         /\ disk'[m_currentSaveFilePath] = CompleteEncoding
         /\ LET r == LoadSaveFileResult(After, disk', m_currentSaveFilePath)
            IN r.ret = TRUE /\ r.st.doc = m_saveData]_vars

\* ---- C6 ----
\* C6: a Load that fails, on open or on parse, returns false without
\* raising and leaves the engine unloaded with a null document and an empty
\* path, also when another file had been loaded before.
C6_FailedLoadResets ==
    (last.op = "Load" /\ last.ret = FALSE) =>
        /\ last.raised = FALSE
        /\ m_isSaveFileLoaded = FALSE
        /\ m_saveData = JNull
        /\ m_currentSaveFilePath = EmptyPath

\* The second call is a failed Load and the first was a successful one, of
\* another file.
C6_Witness ==
    /\ calls = 2
    /\ everLoaded
    /\ last.op = "Load"
    /\ last.ret = FALSE
    /\ m_isSaveFileLoaded = FALSE

\* ---- C7 ----
\* C7 as stated: a Load whose bytes fail to parse leaves the engine's
\* state as it was before the call.
C7_ParseFailureKeepsState ==
    [][(Step("Load") /\ last'.fault = "parse") =>
         (last'.ret = FALSE /\ UNCHANGED engine)]_vars

\* C7 as the code has it: a Load whose bytes fail to parse returns false
\* and discards the state of before the call: whatever was loaded, the
\* engine is unloaded afterwards, its document null and its path empty; the
\* files are as they were.
C7_ParseFailureDiscardsState ==
    [][(Step("Load") /\ last'.fault = "parse") =>
         /\ last'.ret = FALSE
         /\ After = Engine(FALSE, EmptyPath, JNull)
         /\ UNCHANGED files]_vars

\* A file was loaded and a Load of a file that does not parse has just
\* thrown it away.
C7_Witness ==
    /\ last.op = "Load"
    /\ last.fault = "parse"
    /\ last.path = JunkSav
    /\ everLoaded
    /\ m_saveData = JNull

\* ---- C8 ----
\* C8: a Write while no file is loaded or the path is empty returns false
\* with an empty backup path and does nothing to the filesystem: no
\* directory, no backup, no write.
C8_WriteNeedsLoadedFile ==
    [][(Step("Write") /\ (~m_isSaveFileLoaded \/ m_currentSaveFilePath = EmptyPath)) =>
         /\ last'.ret = FALSE
         /\ last'.out = EmptyPath
         /\ last'.log = <<>>
         /\ UNCHANGED files]_vars

\* A Write was refused after a failed Load had unloaded an earlier file.
C8_Witness ==
    /\ last.op = "Write"
    /\ last.fault = "precondition"
    /\ last.ret = FALSE
    /\ everLoaded
    /\ m_isSaveFileLoaded = FALSE
    /\ dirs = {SaveDir}

\* ---- C9 ----
\* C9: the classifier is defined for every integer: 1 gives 0, 99 gives
\* 66, 999 gives 666, 9999 and more give 6666, everything else gives 0.
C9_TierTable ==
    tier.done =>
        tier.out = CASE tier.in = 1 -> 0
                     [] tier.in = 99 -> 66
                     [] tier.in = 999 -> 666
                     [] tier.in >= 9999 -> 6666
                     [] OTHER -> 0

\* A capacity above 9999 was classified.
C9_Witness == tier.done /\ tier.in > 9999 /\ tier.out = 6666

\* ---- C10 ----
\* The section the currency setters write to is there and is a map.
PlayerInfoIsMap(st) ==
    /\ st.loaded
    /\ contains(st.doc, K_PlayerInfo)
    /\ is_object(at(st.doc, K_PlayerInfo))

\* What C10 says of one setter, its getter and its field.
CurrencyClaim(setter, getter, field) ==
    /\ Step(setter) =>
           /\ PlayerInfoIsMap(Before) =>
                  /\ at(at(m_saveData', K_PlayerInfo), field)
                         = JInt(MinOf(last'.n, 999999999))
                  /\ GetterResult(After, K_PlayerInfo, field)
                         = [n |-> MinOf(last'.n, 999999999), raised |-> FALSE]
                  /\ SetterResult(After, K_PlayerInfo, field, ClampCurrency(last'.n))
                         = m_saveData'
           /\ ~PlayerInfoIsMap(Before) => m_saveData' = m_saveData
           /\ UNCHANGED <<m_isSaveFileLoaded, m_currentSaveFilePath, files>>
    /\ (last.op = setter /\ PlayerInfoIsMap(Before) /\ Step(getter)) =>
           last'.n = MinOf(last.n, 999999999)
    /\ (last.op = setter /\ Step(setter) /\ last'.n = last.n) =>
           m_saveData' = m_saveData

\* C10: SetGold, SetBei and SetArtisansFlame store min(v, 999999999) in
\* m_Gold, m_Bei and m_ChefFlame of PlayerInfo, the matching getter then
\* returns that value, the same call again changes nothing, and the call
\* changes nothing when no file is loaded or PlayerInfo is absent or not a
\* map.
C10_SettersClamp ==
    [][/\ CurrencyClaim("SetGold", "GetGold", K_Gold)
       /\ CurrencyClaim("SetBei", "GetBei", K_Bei)
       /\ CurrencyClaim("SetArtisansFlame", "GetArtisansFlame", K_ChefFlame)]_vars

\* SetGold was called with more than the maximum and m_Gold holds the
\* maximum.
C10_Witness ==
    /\ last.op = "SetGold"
    /\ last.n > 999999999
    /\ PlayerInfoIsMap(Engine(m_isSaveFileLoaded, m_currentSaveFilePath, m_saveData))
    /\ at(at(m_saveData, K_PlayerInfo), K_Gold) = JInt(999999999)

\* ---- C11 ----
\* The integer under field of an object is at most the maximum; a field that
\* is absent or not an integer is no count.
FieldWithinMaximum(obj, field) ==
    (is_object(obj) /\ contains(obj, field) /\ is_number_integer(at(obj, field))) =>
        Val(at(obj, field)) <= 999999999

\* Every entry of the collection under section has its field within the maximum.
EntriesWithinMaximum(doc, section, field) ==
    (contains(doc, section) /\ is_object(at(doc, section))) =>
        \A i \in 1..Len(Val(at(doc, section))) :
            FieldWithinMaximum(Val(at(doc, section))[i][2], field)

ValuesWithinMaximum(doc) ==
    /\ contains(doc, K_PlayerInfo) =>
           /\ FieldWithinMaximum(at(doc, K_PlayerInfo), K_Gold)
           /\ FieldWithinMaximum(at(doc, K_PlayerInfo), K_Bei)
           /\ FieldWithinMaximum(at(doc, K_PlayerInfo), K_ChefFlame)
    /\ EntriesWithinMaximum(doc, K_Ingredients, K_count)
    /\ EntriesWithinMaximum(doc, K_InventoryItemSlot, K_totalCount)

\* C11: after a Write that returns true, every currency value of PlayerInfo
\* and every count of the ingredient and inventory collections in the
\* written file is at most 999999999, whatever the loaded file held.
C11_WrittenWithinMaximum ==
    [][(Step("Write") /\ last'.ret = TRUE) =>
         LET r == LoadSaveFileResult(After, disk', m_currentSaveFilePath)
         IN r.ret = TRUE => ValuesWithinMaximum(r.st.doc)]_vars

\* ---- C12 ----
SNSInfoIsMap(st) ==
    /\ st.loaded
    /\ contains(st.doc, K_SNSInfo)
    /\ is_object(at(st.doc, K_SNSInfo))

\* C12: with SNSInfo a map of a loaded document, SetFollowerCount(v) stores
\* v itself in m_Follow_Count, also when v is above 999999999, and
\* GetFollowerCount then returns v; when nothing is loaded or SNSInfo is
\* absent or not a map the call changes nothing.
C12_FollowerCountUnclamped ==
    [][/\ Step("SetFollowerCount") =>
              /\ SNSInfoIsMap(Before) =>
                     /\ at(at(m_saveData', K_SNSInfo), K_FollowCount) = JInt(last'.n)
                     /\ GetterResult(After, K_SNSInfo, K_FollowCount)
                            = [n |-> last'.n, raised |-> FALSE]
                     /\ \A i \in 1..Len(Val(m_saveData)) :
                            Val(m_saveData)[i][1] # K_SNSInfo =>
                                Val(m_saveData')[i] = Val(m_saveData)[i]
              /\ ~SNSInfoIsMap(Before) => m_saveData' = m_saveData
              /\ UNCHANGED <<m_isSaveFileLoaded, m_currentSaveFilePath, files>>
       /\ (last.op = "SetFollowerCount" /\ SNSInfoIsMap(Before) /\ Step("GetFollowerCount")) =>
              (last'.n = last.n /\ last'.raised = FALSE)]_vars

\* SetFollowerCount was called with more than the currency maximum and
\* m_Follow_Count holds that value.
C12_Witness ==
    /\ last.op = "SetFollowerCount"
    /\ last.n > 999999999
    /\ SNSInfoIsMap(Engine(m_isSaveFileLoaded, m_currentSaveFilePath, m_saveData))
    /\ at(at(m_saveData, K_SNSInfo), K_FollowCount) = JInt(last.n)

\* ---- C13 ----
\* What C13 says of one getter: no exception leaves it, and it returns 0
\* when nothing is loaded, the section is absent or not a map, or the field
\* is absent.
GetterClaim(getter, section, field) ==
    last.op = getter =>
        /\ last.raised = FALSE
        /\ (\/ ~m_isSaveFileLoaded
            \/ ~contains(m_saveData, section)
            \/ ~is_object(at(m_saveData, section))
            \/ ~contains(at(m_saveData, section), field)) => last.n = 0

\* C13: GetGold, GetBei, GetArtisansFlame and GetFollowerCount return
\* without raising for every document, whatever the field holds, and
\* return 0 when the document, the section or the field is missing.
C13_GettersNeverRaise ==
    /\ GetterClaim("GetGold", K_PlayerInfo, K_Gold)
    /\ GetterClaim("GetBei", K_PlayerInfo, K_Bei)
    /\ GetterClaim("GetArtisansFlame", K_PlayerInfo, K_ChefFlame)
    /\ GetterClaim("GetFollowerCount", K_SNSInfo, K_FollowCount)

(***************************************************************************)
(* Properties of the bulk mutators.                                        *)
(***************************************************************************)
\* The keys of an object; no keys for anything else.
KeysOf(j) == IF is_object(j) THEN {Val(j)[i][1] : i \in 1..Len(Val(j))} ELSE {}

\* The target the spec gives a capacity.
TierTarget(capacity) ==
    CASE capacity = 1 -> 0
      [] capacity = 99 -> 66
      [] capacity = 999 -> 666
      [] capacity >= 9999 -> 6666
      [] OTHER -> 0

\* Every top-level section but the named one is the same after the step.
OtherSectionsUnchanged(section) ==
    \A k \in (KeysOf(m_saveData) \cup KeysOf(m_saveData')) \ {section} :
        /\ contains(m_saveData, k)
        /\ contains(m_saveData', k)
        /\ at(m_saveData', k) = at(m_saveData, k)

\* after is entry with field set and nothing else touched.
SameExcept(entry, after, field) ==
    /\ is_object(after)
    /\ KeysOf(after) = KeysOf(entry) \cup {field}
    /\ \A k \in KeysOf(entry) \ {field} : at(after, k) = at(entry, k)

\* The rows of Items a statement can see.
ItemRows == IF g_refDb.open /\ g_refDb.tables
            THEN {g_refDb.Items[i] : i \in 1..Len(g_refDb.Items)}
            ELSE {}

\* The pairs <<I, T>> of the join of Ingredients and Items on I.TID = T.ItemDataID.
JoinPairs ==
    IF g_refDb.open /\ g_refDb.tables
    THEN {p \in {g_refDb.Ingredients[i] : i \in 1..Len(g_refDb.Ingredients)} \X ItemRows :
              p[1].TID = p[2].ItemDataID}
    ELSE {}

\* The keys of the Ingredients collection of a document (none when it has no
\* such map).
IngredientKeys(doc) ==
    IF contains(doc, K_Ingredients) THEN KeysOf(at(doc, K_Ingredients)) ELSE {}

\* ---- C14 ----
\* C14: no getter or setter adds a top-level section, and in every call
\* that is not a Load the top-level keys stay as they are, except that
\* MaxAllIngredients may add "Ingredients".
C14_TopLevelKeys ==
    [][(calls' = calls + 1 /\ last'.op # "Load") =>
         \/ KeysOf(m_saveData') = KeysOf(m_saveData)
         \/ /\ last'.op = "MaxAllIngredients"
            /\ K_Ingredients \notin KeysOf(m_saveData)
            /\ KeysOf(m_saveData') = KeysOf(m_saveData) \cup {K_Ingredients}]_vars

\* MaxAllIngredients has added the section to a save that had none, and the
\* sections the save had are still there.
C14_Witness ==
    /\ last.op = "MaxAllIngredients"
    /\ m_currentSaveFilePath = FullSav
    /\ KeysOf(m_saveData) = {K_Ingredients, K_PlayerInfo, K_SNSInfo}

\* ---- C15 ----
\* What C15 and C16 say of a loop over the collection under section that
\* looks id_field up in column and writes count_field.
OwnClaim(op, section, id_field, column, count_field) ==
    (/\ Step(op)
     /\ m_isSaveFileLoaded
     /\ contains(m_saveData, section)
     /\ is_object(at(m_saveData, section))) =>
        LET Matches(e) == {row \in ItemRows : row[column] = Val(at(e, id_field))}
            Eligible(e) ==
                /\ contains(e, id_field)
                /\ is_number_integer(at(e, id_field))
                /\ \E row \in Matches(e) : TierTarget(row.MaxCount) > 0
            Target(e) == TierTarget((CHOOSE row \in Matches(e) : TRUE).MaxCount)
        IN
        /\ last'.raised = FALSE
        /\ KeysOf(m_saveData') = KeysOf(m_saveData)
        /\ OtherSectionsUnchanged(section)
        /\ is_object(at(m_saveData', section))
        /\ KeysOf(at(m_saveData', section)) = KeysOf(at(m_saveData, section))
        /\ \A k \in KeysOf(at(m_saveData, section)) :
               LET e == at(at(m_saveData, section), k)
                   after == at(at(m_saveData', section), k)
               IN  IF Eligible(e)
                   THEN /\ at(after, count_field) = JInt(Target(e))
                        /\ SameExcept(e, after, count_field)
                   ELSE after = e

\* C15: MaxOwnIngredients keeps the keys of the Ingredients collection and
\* changes count fields only: an entry's count becomes the target of its
\* capacity exactly when its ingredientsID is an integer, Items has a row
\* with that ItemDataID and the target is not 0; every other entry and
\* every other section is as before, and entries after a skipped one are
\* still processed.
C15_OwnIngredientsCountsOnly ==
    [][OwnClaim("MaxOwnIngredients", K_Ingredients, K_ingredientsID, "ItemDataID",
                K_count)]_vars

\* Entry "3" was skipped (capacity 1), entry "5" after it was set to 66, and
\* entry "8", which Items does not have, kept its count.
C15_Witness ==
    /\ last.op = "MaxOwnIngredients"
    /\ m_currentSaveFilePath = BulkSav
    /\ g_refDb = RefDb
    /\ at(at(at(m_saveData, K_Ingredients), <<51>>), K_count) = JInt(4)
    /\ at(at(at(m_saveData, K_Ingredients), <<53>>), K_count) = JInt(66)
    /\ at(at(at(m_saveData, K_Ingredients), <<56>>), K_count) = JInt(1)

\* ---- C16 ----
\* C16: MaxOwnMaterials sets totalCount to the target for every slot whose
\* itemID is an integer that matches an Items row by TID with a target
\* that is not 0; no slot is added or removed, the Ingredients section is
\* untouched and every other entry is as before.
C16_OwnMaterialsByTID ==
    [][OwnClaim("MaxOwnMaterials", K_InventoryItemSlot, K_itemID, "TID",
                K_totalCount)]_vars

\* Slot "1" holds item 5, whose row by TID has capacity 999: its totalCount
\* is 666, and the ingredient with id 5 kept its count.
C16_Witness ==
    /\ last.op = "MaxOwnMaterials"
    /\ m_currentSaveFilePath = BulkSav
    /\ g_refDb = RefDb
    /\ at(at(at(m_saveData, K_InventoryItemSlot), <<49>>), K_totalCount) = JInt(666)
    /\ at(at(at(m_saveData, K_InventoryItemSlot), <<50>>), K_totalCount) = JInt(1)
    /\ at(at(at(m_saveData, K_Ingredients), <<53>>), K_count) = JInt(2)

\* ---- C17 ----
\* C17: after MaxAllIngredients on a loaded document with a working store
\* the Ingredients section is a map; every join row with a target that is
\* not 0 has an entry under the decimal string of its id with count equal
\* to the target; an entry that existed has at most its count changed;
\* rows with target 0 insert and change nothing; entries no such row
\* matches are as before.
C17_AllIngredientsPresent ==
    [][(/\ Step("MaxAllIngredients")
        /\ m_isSaveFileLoaded
        /\ g_refDb.open
        /\ g_refDb.tables) =>
         LET eligible == {p \in JoinPairs : TierTarget(p[2].MaxCount) > 0}
             before == IngredientKeys(m_saveData)
             old == at(m_saveData, K_Ingredients)
             new == at(m_saveData', K_Ingredients)
         IN
         /\ contains(m_saveData', K_Ingredients)
         /\ is_object(new)
         /\ \A p \in eligible :
                /\ contains(new, IntText(p[1].TID))
                /\ contains(at(new, IntText(p[1].TID)), K_count)
                /\ at(at(new, IntText(p[1].TID)), K_count)
                       = JInt(TierTarget(p[2].MaxCount))
         /\ \A k \in before :
                /\ contains(new, k)
                /\ IF \E p \in eligible : IntText(p[1].TID) = k
                   THEN SameExcept(at(old, k), at(new, k), K_count)
                   ELSE at(new, k) = at(old, k)
         /\ \A k \in KeysOf(new) \ before :
                \E p \in eligible : IntText(p[1].TID) = k]_vars

\* ---- C18 ----
\* The fields of an entry MaxAllIngredients inserts.
NewEntryFields ==
    {K_ingredientsID, K_level, K_parentID, K_count, K_branchCount, K_lastGainTime,
     K_lastGainGameTime, K_isNew, K_placeTagMask}

\* C18: every entry MaxAllIngredients inserts has exactly the nine fields:
\* ingredientsID the row's id and the number its key spells, level 1,
\* parentID from the join, count the target, branchCount 0, the two
\* timestamps, isNew true and placeTagMask 1.
C18_InsertedEntryComplete ==
    [][Step("MaxAllIngredients") =>
         \A k \in IngredientKeys(m_saveData') \ IngredientKeys(m_saveData) :
             LET e == at(at(m_saveData', K_Ingredients), k) IN
             /\ KeysOf(e) = NewEntryFields
             /\ \E p \in JoinPairs :
                    /\ IntText(p[1].TID) = k
                    /\ at(e, K_ingredientsID) = JInt(p[1].TID)
                    /\ at(e, K_parentID) = JInt(p[2].TID)
                    /\ TierTarget(p[2].MaxCount) > 0
                    /\ at(e, K_count) = JInt(TierTarget(p[2].MaxCount))
             /\ at(e, K_level) = JInt(1)
             /\ at(e, K_branchCount) = JInt(0)
             /\ is_string(at(e, K_lastGainTime))
             /\ is_string(at(e, K_lastGainGameTime))
             /\ at(e, K_isNew) = JBool(TRUE)
             /\ at(e, K_placeTagMask) = JInt(1)]_vars

\* The section was created for a save without one and holds the entry of
\* the row with id 5 and capacity 99: key "5", count 66, the defaults.
C18_Witness ==
    /\ last.op = "MaxAllIngredients"
    /\ last.again = FALSE
    /\ m_currentSaveFilePath = FullSav
    /\ IngredientKeys(m_saveData) = {<<53>>, <<49, 48>>}
    /\ at(at(at(m_saveData, K_Ingredients), <<53>>), K_count) = JInt(66)
    /\ at(at(at(m_saveData, K_Ingredients), <<53>>), K_isNew) = JBool(TRUE)
    /\ at(at(at(m_saveData, K_Ingredients), <<53>>), K_lastGainTime)
           = JStr(Default_lastGainTime)

\* ---- C19 ----
\* C19: MaxAllIngredients run again on its own result, with the same
\* store, leaves the document as the first run left it, also when the
\* first run inserted an entry that sorts before the entry that was first.
C19_AllIngredientsIdempotent ==
    [][Step("MaxAllIngredients") =>
         /\ MaxAllIngredientsResult(After, g_refDb).doc = m_saveData'
         /\ last'.again => m_saveData' = m_saveData]_vars

\* The second of two runs in a row; the first inserted "10", which sorts
\* before "3", the entry the timestamps were taken from.
C19_Witness ==
    /\ last.op = "MaxAllIngredients"
    /\ last.again = TRUE
    /\ m_currentSaveFilePath = BulkSav
    /\ g_refDb = RefDb
    /\ Val(at(m_saveData, K_Ingredients))[1][1] = <<49, 48>>
    /\ at(Val(at(m_saveData, K_Ingredients))[1][2], K_lastGainTime)
           = at(at(at(m_saveData, K_Ingredients), <<51>>), K_lastGainTime)

\* ---- C20 ----
\* The entries of the staff collection, in order.
StaffValues(staff) ==
    IF is_object(staff) THEN [i \in 1..Len(Val(staff)) |-> Val(staff)[i][2]]
    ELSE IF Kind(staff) = "arr" THEN Val(staff)
    ELSE <<>>

\* C20: after MaxOwnStaffLevel on a loaded document with a Staff
\* collection every entry whose name is not "Staff_Dave" has level 20,
\* every entry named "Staff_Dave" is as it was, no entry is added or
\* removed, no field but level is added or changed, and nothing else in
\* the document changes.
C20_StaffLevels ==
    [][(/\ Step("MaxOwnStaffLevel")
        /\ m_isSaveFileLoaded
        /\ contains(m_saveData, K_Staff)) =>
         LET old == at(m_saveData, K_Staff)
             new == at(m_saveData', K_Staff)
         IN
         /\ KeysOf(m_saveData') = KeysOf(m_saveData)
         /\ OtherSectionsUnchanged(K_Staff)
         /\ Kind(new) = Kind(old)
         /\ KeysOf(new) = KeysOf(old)
         /\ Len(StaffValues(new)) = Len(StaffValues(old))
         /\ \A i \in 1..Len(StaffValues(old)) :
                LET e == StaffValues(old)[i]
                    after == StaffValues(new)[i]
                IN  IF contains(e, K_name) /\ at(e, K_name) = JStr(Staff_Dave)
                    THEN after = e
                    ELSE /\ contains(after, K_level)
                         /\ at(after, K_level) = JInt(20)
                         /\ SameExcept(e, after, K_level)]_vars

(***************************************************************************)
(* Properties of the failure policy and of the frame of each operation.    *)
(***************************************************************************)
\* The names of the bulk mutators.
BulkOps == {"MaxOwnIngredients", "MaxOwnMaterials", "MaxAllIngredients", "MaxOwnStaffLevel"}

\* ---- C21 ----
\* C21: a bulk mutator called while nothing is loaded changes no state, and
\* MaxOwnIngredients, MaxOwnMaterials and MaxAllIngredients called on a
\* loaded document with a null reference handle leave the document exactly
\* as it was: MaxAllIngredients does not create the Ingredients section.
C21_MissingPreconditions ==
    [][\A op \in BulkOps :
         Step(op) =>
           /\ ~m_isSaveFileLoaded =>
                  /\ UNCHANGED <<engine, files>>
                  /\ last'.raised = FALSE
           /\ (m_isSaveFileLoaded /\ ~g_refDb.open /\ op # "MaxOwnStaffLevel") =>
                  /\ UNCHANGED <<engine, files>>
                  /\ last'.raised = FALSE]_vars

\* MaxAllIngredients was called with a null handle on a loaded save that has
\* no Ingredients section, and the save still has none.
C21_Witness ==
    /\ last.op = "MaxAllIngredients"
    /\ m_isSaveFileLoaded
    /\ m_currentSaveFilePath = FullSav
    /\ ~g_refDb.open
    /\ K_Ingredients \notin KeysOf(m_saveData)

\* ---- C22 ----
\* What C22 says of one bulk mutator and its owning section.
SectionClaim(op, section) ==
    (/\ Step(op)
     /\ m_isSaveFileLoaded
     /\ (~contains(m_saveData, section) \/ ~is_object(at(m_saveData, section)))) =>
        /\ last'.raised = FALSE
        /\ \/ m_saveData' = m_saveData
           \/ /\ op = "MaxAllIngredients"
              /\ ~contains(m_saveData, section)
              /\ KeysOf(m_saveData') = KeysOf(m_saveData) \cup {section}
              /\ OtherSectionsUnchanged(section)

\* C22: a bulk mutator whose owning section is absent, or is there but is
\* not a map, returns with the document unchanged; only MaxAllIngredients
\* may create Ingredients, and only when the section is absent: a section
\* that is there and is not a map is not replaced.
C22_SectionPrecondition ==
    [][/\ SectionClaim("MaxOwnIngredients", K_Ingredients)
       /\ SectionClaim("MaxAllIngredients", K_Ingredients)
       /\ SectionClaim("MaxOwnMaterials", K_InventoryItemSlot)
       /\ SectionClaim("MaxOwnStaffLevel", K_Staff)]_vars

\* ---- C23 ----
\* C23: a bulk mutator call either goes through its whole collection or
\* leaves the document as it was before the call: a call that an exception
\* ends partway, and a call whose statement or join query fails, leave no
\* change in the document.
C23_AllOrNothing ==
    [][\A op \in BulkOps :
         Step(op) =>
           /\ last'.raised => m_saveData' = m_saveData
           /\ (op # "MaxOwnStaffLevel" /\ g_refDb.open /\ ~StatementOk(g_refDb)) =>
                  m_saveData' = m_saveData]_vars

\* ---- C24 ----
\* C24: no operation of the engine lets an error escape: whatever save was
\* loaded and whatever the reference store holds, every call returns to its
\* caller normally.
C24_NoErrorEscapes == last.raised = FALSE

\* ---- C25 ----
\* The document a file's bytes decode and parse to.
DocumentOf(bytes) == Parse(XORDecryptEncrypt(bytes, XOR_KEY))

\* C25: a Load that returns true sets the loaded flag, records its argument
\* as the current path and makes the document the parse of the decoded
\* bytes of the file, whatever was loaded and edited before: nothing of the
\* earlier document is in the new one, and the file is as it was.
C25_LoadReplacesDocument ==
    [][(Step("Load") /\ last'.ret = TRUE) =>
         /\ last'.path \in DOMAIN disk
         /\ DocumentOf(disk[last'.path]).ok
         /\ After = Engine(TRUE, last'.path, DocumentOf(disk[last'.path]).v)
         /\ LoadSaveFileResult(Engine(FALSE, EmptyPath, JNull), disk, last'.path).st = After
         /\ UNCHANGED files]_vars

\* The save with the collections was loaded again after an edit of the
\* document in memory: the count the file has for ingredient "5" is back
\* and no inserted entry is left.
C25_Witness ==
    /\ last.op = "Load"
    /\ last.ret = TRUE
    /\ last.edited
    /\ calls = 3
    /\ m_currentSaveFilePath = BulkSav
    /\ m_saveData = DocumentOf(BulkDisk[BulkSav]).v
    /\ at(at(at(m_saveData, K_Ingredients), <<53>>), K_count) = JInt(2)
    /\ <<49, 48>> \notin IngredientKeys(m_saveData)

\* ---- C26 ----
\* C26: a Write, whether it succeeds or fails and at whatever step it
\* fails, leaves the document, the loaded flag and the current path as they
\* were before the call.
C26_WriteKeepsMemory ==
    [][Step("Write") =>
         /\ m_saveData' = m_saveData
         /\ m_isSaveFileLoaded' = m_isSaveFileLoaded
         /\ m_currentSaveFilePath' = m_currentSaveFilePath]_vars

\* A Write of an edited document failed when the original was opened for
\* writing, after the backup was made: the edit is still in memory and the
\* file is still loaded.
C26_Witness ==
    /\ last.op = "Write"
    /\ last.ret = FALSE
    /\ last.fault = "open"
    /\ m_isSaveFileLoaded
    /\ m_currentSaveFilePath = FullSav
    /\ at(at(m_saveData, K_PlayerInfo), K_Gold) = JInt(7)
    /\ disk[FullSav] = InitialDisk[FullSav]

\* ---- C27 ----
\* C27: the entries one MaxAllIngredients run inserts all carry the same two
\* timestamps: each is the string the first entry of the collection, as it
\* was before the run, has under that name, and the fixed default when that
\* entry has no string there, when the collection was empty and when the
\* section was absent.
C27_InsertedTimestamps ==
    [][Step("MaxAllIngredients") =>
         LET old == IF contains(m_saveData, K_Ingredients)
                       /\ is_object(at(m_saveData, K_Ingredients))
                    THEN Val(at(m_saveData, K_Ingredients)) ELSE <<>>
             Expected(field, default) ==
                 IF Len(old) > 0 /\ contains(old[1][2], field)
                    /\ is_string(at(old[1][2], field))
                 THEN at(old[1][2], field)
                 ELSE JStr(default)
         IN  \A k \in IngredientKeys(m_saveData') \ IngredientKeys(m_saveData) :
                 LET e == at(at(m_saveData', K_Ingredients), k) IN
                 /\ at(e, K_lastGainTime)
                        = Expected(K_lastGainTime, <<48, 52, 47, 48, 49, 47, 50, 48, 50, 53, 32, 49, 50, 58, 51, 52, 58, 53, 54>>)
                 /\ at(e, K_lastGainGameTime)
                        = Expected(K_lastGainGameTime, <<49, 48, 47, 48, 51, 47, 50, 48, 50, 50, 32, 48, 56, 58, 51, 48, 58, 53, 50>>)]_vars

\* Entry "10" was inserted in front of "3", the entry that was first: its
\* lastGainTime is the string "T" of entry "3", and its lastGainGameTime is
\* the default, entry "3" holding a number there.
C27_Witness ==
    /\ last.op = "MaxAllIngredients"
    /\ last.again = FALSE
    /\ m_currentSaveFilePath = BulkSav
    /\ Val(at(m_saveData, K_Ingredients))[1][1] = <<49, 48>>
    /\ at(Val(at(m_saveData, K_Ingredients))[1][2], K_lastGainTime) = JStr(<<84>>)
    /\ at(Val(at(m_saveData, K_Ingredients))[1][2], K_lastGainGameTime)
           = JStr(Default_lastGainGameTime)
    /\ at(at(at(m_saveData, K_Ingredients), <<51>>), K_lastGainGameTime) = JInt(7)

\* ---- C28 ----
\* C28: only WriteSaveFile changes a file: a Load, a getter, a setter or a
\* bulk mutator leaves every file with the bytes it had and creates no file
\* and no directory, so without a Write the save file keeps its bytes
\* through any sequence of such calls.
C28_OnlyWriteTouchesFiles ==
    [][(calls' = calls + 1 /\ last'.op # "Write") =>
         /\ DOMAIN disk' = DOMAIN disk
         /\ \A p \in DOMAIN disk : disk'[p] = disk[p]
         /\ dirs' = dirs]_vars

\* Three calls without a Write, the last a bulk mutator that changed the
\* document: the loaded file still has its first bytes, which no longer
\* decode to the document in memory.
C28_Witness ==
    /\ calls = 3
    /\ last.op \in BulkOps
    /\ m_isSaveFileLoaded
    /\ m_currentSaveFilePath = BulkSav
    /\ disk[BulkSav] = XORDecryptEncrypt(TextBulk, XOR_KEY)
    /\ DocumentOf(disk[BulkSav]).v # m_saveData
    /\ DOMAIN disk = BulkPaths

\* ---- C29 ----
\* The three members agree: nothing loaded means a null document and an
\* empty path, and a loaded file has a path.
MembersConsistent ==
    /\ ~m_isSaveFileLoaded => (m_saveData = JNull /\ m_currentSaveFilePath = EmptyPath)
    /\ m_isSaveFileLoaded => m_currentSaveFilePath # EmptyPath

\* C29: in every reachable state the loaded flag, the current path and the
\* document agree: with the flag off the document is null and the path
\* empty; with the flag on the path is not empty and is the argument of the
\* last Load that returned true, and no call but a Load changes the flag or
\* the path.
C29_MembersConsistent ==
    /\ []MembersConsistent
    /\ [][/\ (Step("Load") /\ last'.ret = TRUE) =>
                 /\ m_isSaveFileLoaded'
                 /\ last'.path # EmptyPath
                 /\ m_currentSaveFilePath' = last'.path
          /\ (Step("Load") /\ last'.ret = FALSE) => ~m_isSaveFileLoaded'
          /\ (calls' = calls + 1 /\ last'.op # "Load") =>
                 /\ m_isSaveFileLoaded' = m_isSaveFileLoaded
                 /\ m_currentSaveFilePath' = m_currentSaveFilePath]_vars

\* A file that does not parse was given to Load after another file had been
\* loaded, and a Write was refused afterwards: the flag is off, the path is
\* empty and the document is null.
C29_Witness ==
    /\ calls = 3
    /\ everLoaded
    /\ last.op = "Write"
    /\ last.fault = "precondition"
    /\ ~m_isSaveFileLoaded
    /\ m_currentSaveFilePath = EmptyPath
    /\ m_saveData = JNull

====
